---- MODULE Spec2Model ----
(***************************************************************************)
(* Sentinel gateway: the decision pipeline (propose_tool_call), the        *)
(* approval controller (approve_tool_call / deny_tool_call), the policy    *)
(* engine and the redactor, over an audit store with per-request sessions. *)
(*                                                                         *)
(* Python strings are sequences of tokens; a token is a run of characters  *)
(* ("/", "sandbox", "..", ".env", "fs.", "write_file", ...).  Inputs are   *)
(* tokenised so that every substring the code tests for is a token of its  *)
(* own, which makes startswith / endswith / `in` the corresponding         *)
(* operations on token sequences.                                          *)
(***************************************************************************)
EXTENDS Integers, Sequences, FiniteSets, TLC

(***************************************************************************)
(* Bounds of the model.                                                    *)
(***************************************************************************)
NumProcs == 2
MaxToolCalls == 1
MaxRequests == 3
MaxPathLen == 4
MaxValueLen == 2
MaxServers == 3
MaxSyncs == 2
MaxSdkOps == 3
NumSinks == 2
MaxPages == 3
MaxStdioOps == 2

\* ticks of the clock in the per-request timeout of the response reader
ReadTimeout == 2

\* lines the child writes in one write
MaxBurst == 2

\* propose_tool_call calls of an engine whose sink writes can fail
MaxAuditCalls == 1

Procs == 1..NumProcs

(***************************************************************************)
(* None for string-typed fields and for enum-typed fields.                 *)
(***************************************************************************)
NullStr == <<"<null>">>
Null == "null"

(***************************************************************************)
(* String helpers (str.startswith, str.endswith, `tok in s`).              *)
(***************************************************************************)
StartsWith(s, p) == Len(p) <= Len(s) /\ SubSeq(s, 1, Len(p)) = p
EndsWithTok(s, tok) == Len(s) > 0 /\ s[Len(s)] = tok
Contains(s, tok) == \E i \in 1..Len(s) : s[i] = tok

\* dict.get(k, default)
Get(d, k, default) == IF k \in DOMAIN d THEN d[k] ELSE default

(***************************************************************************)
(* app/policy.py                                                           *)
(***************************************************************************)
BLOCKED_FILENAMES == {".env", ".key", ".pem"}

SandboxRoot == <<"/", "sandbox">>

_is_under_sandbox(path) ==
    path = SandboxRoot \/ StartsWith(path, SandboxRoot \o <<"/">>)

FsListDir == <<"fs.", "list_dir">>
FsReadFile == <<"fs.", "read_file">>
FsWriteFile == <<"fs.", "write_file">>

KPath == <<"path">>

\* Risk scores are kept in tenths: 0.7 is 7, 1.0 is 10.
Verdict(d, r, k) == [decision |-> d, reason |-> r, risk_score |-> k]


(***************************************************************************)
(* Length in characters of a token sequence (len(prefix) in the sort key). *)
(***************************************************************************)
TokLen(tok) ==
    CASE tok = "fs." -> 3
      [] tok = "gh." -> 3
      [] tok = "made." -> 5
      [] tok = "list_dir" -> 8
      [] tok = "read_file" -> 9
      [] tok = "write_file" -> 10
      [] tok = "issue" -> 5
      [] tok = "up" -> 2
      [] OTHER -> 1

RECURSIVE StrLen(_)
StrLen(s) == IF s = <<>> THEN 0 ELSE TokLen(Head(s)) + StrLen(Tail(s))

\* str.upper() on the verdict strings a rule table can carry
Upper(s) ==
    CASE s = "allow" -> "ALLOW"
      [] s = "block" -> "BLOCK"
      [] s = "approval_required" -> "APPROVAL_REQUIRED"
      [] s = "maybe" -> "MAYBE"
      [] OTHER -> s

\* list.sort(key=lambda r: len(r[0]), reverse=True): stable, longest first
RECURSIVE InsertRule(_, _)
InsertRule(r, sorted) ==
    IF sorted = <<>> THEN <<r>>
    ELSE IF StrLen(Head(sorted).prefix) >= StrLen(r.prefix)
         THEN <<Head(sorted)>> \o InsertRule(r, Tail(sorted))
         ELSE <<r>> \o sorted

RECURSIVE SortRules(_, _)
SortRules(raw, acc) ==
    IF raw = <<>> THEN acc ELSE SortRules(Tail(raw), InsertRule(Head(raw), acc))

\* the configured table in the order it was written
_prefix_rules_unsorted(raw) == raw

\* _prefix_rules(): the configured table, as (prefix, rule) pairs, sorted
_prefix_rules(raw) == SortRules(raw, <<>>)

\* _policy_from_prefix(tool): the verdict of the first matching rule of the
\* sorted table as a one-element sequence, or the empty sequence for None
RECURSIVE FirstMatch(_, _)
FirstMatch(tool, rules) ==
    IF rules = <<>> THEN <<>>
    ELSE IF StartsWith(tool, Head(rules).prefix)
         THEN LET rule == Head(rules).rule
                  decision == Upper(Get(rule, "decision", "BLOCK"))
                  given == Get(rule, "reason", <<>>)
                  reason == IF given = <<>> THEN <<"Policy prefix match">> ELSE given
                  risk == Get(rule, "risk", 5)
              IN  <<Verdict(IF decision \in {"ALLOW", "BLOCK", "APPROVAL_REQUIRED"}
                               THEN decision ELSE "BLOCK",
                            reason, risk)>>
         ELSE FirstMatch(tool, Tail(rules))

_policy_from_prefix(tool, raw) == FirstMatch(tool, _prefix_rules(raw))

\* evaluate_policy with the rule table consulted before the built-in rules
evaluate_policy_table_first(tool, args, raw) ==
    LET prefix_policy == _policy_from_prefix(tool, raw)
    IN  IF prefix_policy # <<>> THEN prefix_policy[1]
        ELSE IF tool = FsWriteFile /\ _is_under_sandbox(Get(args, KPath, <<>>))
        THEN Verdict("APPROVAL_REQUIRED", <<"Write requires approval">>, 7)
        ELSE Verdict("BLOCK", <<"Unknown tool">>, 10)

\* evaluate_policy(tool, args)
evaluate_policy(tool, args, raw) ==
    IF tool = FsListDir THEN
        LET given == Get(args, KPath, <<>>)
            path == IF given = <<>> THEN SandboxRoot ELSE given
        IN  IF ~_is_under_sandbox(path)
            THEN Verdict("BLOCK", <<"path must be under /sandbox">>, 10)
            ELSE Verdict("ALLOW", <<"Directory listing allowed">>, 0)
    ELSE IF tool = FsReadFile THEN
        LET path == Get(args, KPath, <<>>)
        IN  IF path # <<>> /\ ~_is_under_sandbox(path)
            THEN Verdict("BLOCK", <<"path must be under /sandbox">>, 10)
            ELSE IF \E blocked \in BLOCKED_FILENAMES : Contains(path, blocked)
            THEN Verdict("BLOCK", <<"Access to secret file denied">>, 10)
            ELSE Verdict("ALLOW", <<"File read allowed">>, 0)
    ELSE IF tool = FsWriteFile THEN
        LET given == Get(args, KPath, <<>>)
            path == IF given # <<>> /\ Head(given) # "/"
                    THEN SandboxRoot \o <<"/">> \o given ELSE given
        IN  IF ~_is_under_sandbox(path)
            THEN Verdict("BLOCK", <<"path must be under /sandbox">>, 10)
            ELSE Verdict("APPROVAL_REQUIRED", <<"Write requires approval">>, 7)
    ELSE LET prefix_policy == _policy_from_prefix(tool, raw)
         IN  IF prefix_policy # <<>> THEN prefix_policy[1]
             ELSE Verdict("BLOCK", <<"Unknown tool">>, 10)

(***************************************************************************)
(* app/redaction.py                                                        *)
(***************************************************************************)
SENSITIVE_KEYS == {"password", "secret", "token", "key"}

\* k.lower() on the key tokens the inputs use
Lower(tok) ==
    CASE tok = "KEY" -> "key"
      [] tok = "Token" -> "token"
      [] OTHER -> tok

\* isinstance(v, str): a value that is a JSON object or array is written as
\* its tokens between "{" "}" or "[" "]"; every other value is a string
IsStr(v) == IF v = <<>> THEN TRUE ELSE Head(v) \notin {"{", "["}

\* a redactor that marks the value of a sensitive key and keeps it
redact_args_tagging(args) ==
    [k \in DOMAIN args |->
        IF \E i \in 1..Len(k) : Lower(k[i]) \in SENSITIVE_KEYS
        THEN <<"***REDACTED***">> \o args[k]
        ELSE args[k]]

redact_args(args) ==
    [k \in DOMAIN args |->
        IF \E i \in 1..Len(k) : Lower(k[i]) \in SENSITIVE_KEYS
        THEN <<"***REDACTED***">>
        ELSE IF IsStr(args[k])
                /\ (Contains(args[k], ".env") \/ EndsWithTok(args[k], ".key")
                    \/ EndsWithTok(args[k], ".pem"))
        THEN <<"***REDACTED_PATH***">>
        ELSE args[k]]


(***************************************************************************)
(* Inputs.                                                                 *)
(***************************************************************************)
KContent == <<"content">>
KApiKey == <<"api_", "KEY">>
KOrchestrator == <<"__", "orchestrator">>
KAuth == <<"auth">>

GhIssue == <<"gh.", "issue">>
MadeUp == <<"made.", "up">>

\* propose_tool_call(tool, args) requests with args a JSON object
Proposals ==
    { [tool |-> FsListDir, args |-> (KPath :> <<"/", "sandbox">>)],
      [tool |-> FsReadFile, args |-> (KPath :> <<"/", "etc", "/", "passwd">>)],
      [tool |-> FsWriteFile,
       args |-> (KPath :> <<"/", "sandbox", "/", "f">>) @@ (KApiKey :> <<"s3cr3t">>)],
      [tool |-> FsWriteFile, args |-> (KPath :> <<"/", "etc", "/", "f">>)],
      [tool |-> MadeUp, args |-> <<>>],
      [tool |-> GhIssue,
       args |-> (KOrchestrator :> <<"crew">>) @@ (KContent :> <<"a", ".env">>)
                @@ (KAuth :> <<"{", "token", ":", "hunter2", "}">>)] }

\* tools proposed with args that are no JSON object
InvalidProposalTools == {FsReadFile}

\* POLICY_PREFIX_RULES of the running gateway, in configuration order
DeployedRules ==
    << [prefix |-> <<"fs.">>, rule |-> [decision |-> "allow"]],
       [prefix |-> FsWriteFile, rule |-> [decision |-> "ALLOW", risk |-> 0]],
       [prefix |-> <<"gh.">>,
        rule |-> [decision |-> "ALLOW", reason |-> <<"gh ok">>, risk |-> 2]] >>

\* POLICY_PREFIX_RULES tables a policy evaluation is tried with
RuleTables ==
    { <<>>,
      DeployedRules,
      << [prefix |-> <<"gh.">>, rule |-> [decision |-> "approval_required"]],
         [prefix |-> <<"fs.", "write_">>, rule |-> [decision |-> "ALLOW", risk |-> 20]],
         [prefix |-> <<"made.">>, rule |-> [decision |-> "maybe", risk |-> 3]] >>,
      << [prefix |-> <<"gh.">>, rule |-> [decision |-> "BLOCK", reason |-> <<"no gh">>]],
         [prefix |-> <<"gh.", "issue">>, rule |-> [decision |-> "ALLOW", risk |-> 1]],
         [prefix |-> <<>>, rule |-> [reason |-> <<"default">>, risk |-> 9]] >>,
      << [prefix |-> <<"gh.">>, rule |-> [decision |-> "ALLOW", risk |-> 15]],
         [prefix |-> <<"made.">>, rule |-> [decision |-> "BLOCK", risk |-> -2]] >> }

\* what tool_backend.call_tool does: return a value or raise
BackendOutcomes ==
    { [ok |-> TRUE, val |-> <<"OK">>, text |-> <<>>, detail |-> NullStr],
      [ok |-> FALSE, val |-> NullStr, text |-> <<"timed out">>, detail |-> NullStr],
      [ok |-> FALSE, val |-> NullStr, text |-> <<"500 Server Error">>,
       detail |-> <<"disk full">>] }

\* (note, approved_by) of approve_tool_call / deny_tool_call
Approvals ==
    { [note |-> NullStr, by |-> NullStr],
      [note |-> <<"ok">>, by |-> <<"tester">>] }


(***************************************************************************)
(* State.                                                                  *)
(*   rules       POLICY_PREFIX_RULES as configured (read once, cached)     *)
(*   runs        committed rows of table runs, by id                       *)
(*   tool_calls  committed rows of table tool_calls, by id                 *)
(*   decisions   committed rows of table decisions: per tool call, in       *)
(*               creation order                                            *)
(*   nextId      number of run / tool-call ids handed out so far           *)
(*   served      number of requests taken so far                           *)
(*   lock        per tool-call row: the request whose open transaction has *)
(*               written it (0: none)                                      *)
(*   backendLog  the call_tool invocations made so far: per tool call, in   *)
(*               order                                                     *)
(*   pc, loc     per request handler: position and locals                  *)
(*   obj         per request handler: its session's ToolCall object        *)
(*   ret         per request handler: what the handler returned            *)
(*   pol         input and output of a stand-alone policy evaluation       *)
(*   red         input and outputs of a stand-alone redaction              *)
(***************************************************************************)
VARIABLES rules, runs, tool_calls, decisions, nextId, served, lock, backendLog,
          pc, loc, obj, ret, pol, red, cite, route, mcp, sdk, stdio, sess, rd, reg

vars == <<rules, runs, tool_calls, decisions, nextId, served, lock, backendLog,
          pc, loc, obj, ret, pol, red, cite, route, mcp, sdk, stdio, sess, rd, reg>>

\* the state of the components next to the gateway handlers
aside == <<cite, route, mcp, sdk, stdio, rd, reg>>

\* the state of the gateway handlers
gateway == <<rules, runs, tool_calls, decisions, nextId, served, lock, backendLog,
             pc, loc, obj, ret, sess>>

store == <<runs, tool_calls, decisions>>

\* columns of class ToolCall (what hasattr(tool_call, name) sees)
ToolCallColumns ==
    {"id", "run_id", "tool_name", "args_redacted", "status", "approved_at",
     "approval_note", "created_at"}

\* Column(String, nullable=False, default="EXECUTED")
DefaultStatus == "EXECUTED"

NoVerdict == Verdict(Null, <<>>, 0)
NoOutcome == [ok |-> FALSE, val |-> NullStr, text |-> <<>>, detail |-> NullStr]
NoObj == [run_id |-> 0, tool_name |-> <<>>, args_redacted |-> <<>>, status |-> Null,
          approved_at |-> FALSE, approval_note |-> NullStr, approved_by |-> NullStr,
          result |-> NullStr]
NoLoc == [op |-> "none", tool |-> <<>>, args |-> <<>>, tcid |-> 0,
          run |-> [orchestrator |-> <<>>, agent_id |-> <<>>],
          verdict |-> NoVerdict, outcome |-> NoOutcome,
          note |-> NullStr, by |-> NullStr, fault |-> FALSE]
NoRet == [kind |-> "none", tool_call_id |-> 0, decision |-> Null, reason |-> <<>>,
          result |-> NullStr, final_status |-> Null]
NoPol == [tool |-> <<>>, args |-> <<>>, out |-> NoVerdict]
NoRed == [args |-> <<>>, applied |-> 0, once |-> <<>>, twice |-> <<>>]
\* the registered MCP servers (name to tool_prefix), the rows of mcp_tools by
\* server, and the last sync_mcp_tools call
NoMcp == [servers |-> (<<"github">> :> <<"gh.">>), tools |-> (<<"github">> :> <<>>),
          syncs |-> 0, last |-> <<>>]
\* SentinelEngine: the keys of _tools, the writes each audit sink got and the
\* backend calls in the order they happened, and the last call of the engine
NoSdk == [built |-> FALSE, allow_unknown_tools |-> FALSE, fail_closed |-> FALSE,
          rules |-> <<>>, tools |-> {}, log |-> <<>>, calls |-> 0, syncs |-> 0, last |-> <<>>]
\* McpStdioBackend: the running operation, the child processes, and the
\* page loop of list_tools with the pages it was answered
NoStdio == [pc |-> "idle", ops |-> 0, op |-> "none", pages |-> <<>>, children |-> <<>>,
            i |-> 0, cursor |-> 0, tools |-> <<>>, out |-> [kind |-> "none", tools |-> <<>>]]
NoRoute == [done |-> FALSE, servers |-> <<>>, tool |-> <<>>, out |-> <<>>]
NoCite == [done |-> FALSE, graph |-> <<>>, tool |-> <<>>, args |-> <<>>, out |-> <<>>]

\* the components next to the gateway handlers before they are used
NoRd == [pc |-> "idle", pipe |-> <<>>, buf |-> <<>>, alive |-> TRUE, partial |-> FALSE,
         now |-> 0, answered |-> FALSE, out |-> [ok |-> FALSE, id |-> ""]]

NoReg == [rows |-> <<>>, created |-> 0,
          last |-> [name |-> "", base_url |-> "", tool_prefix |-> <<>>, matched |-> FALSE,
                    ok |-> FALSE, before |-> 0]]

AsideInit ==
    /\ cite = NoCite
    /\ route = NoRoute
    /\ mcp = NoMcp
    /\ sdk = NoSdk
    /\ stdio = NoStdio
    /\ rd = NoRd
    /\ reg = NoReg

\* risk_score=None
NullRisk == -1

\* ToolDecision(...)
ToolDecision(id, d, reason, result, final) ==
    [kind |-> "decision", tool_call_id |-> id, decision |-> d, reason |-> reason,
     result |-> result, final_status |-> final]

\* the request raised instead of returning a ToolDecision
Raised == [NoRet EXCEPT !.kind = "error"]

Init ==
    /\ rules = DeployedRules
    /\ runs = <<>>
    /\ tool_calls = <<>>
    /\ decisions = [i \in 1..MaxToolCalls |-> <<>>]
    /\ nextId = 0
    /\ served = 0
    /\ lock = [i \in 1..MaxToolCalls |-> 0]
    /\ backendLog = [i \in 1..MaxToolCalls |-> <<>>]
    /\ pc = [p \in Procs |-> "idle"]
    /\ sess = [p \in Procs |-> 0]
    /\ loc = [p \in Procs |-> NoLoc]
    /\ obj = [p \in Procs |-> NoObj]
    /\ ret = [p \in Procs |-> NoRet]
    /\ pol = NoPol
    /\ red = NoRed
    /\ AsideInit

(***************************************************************************)
(* app/core/audit.py                                                       *)
(***************************************************************************)
\* create_run: Run(orchestrator, agent_id)
create_run(orchestrator, agent_id) ==
    [orchestrator |-> orchestrator, agent_id |-> agent_id]

\* create_tool_call: ToolCall(run_id, tool_name, args_redacted), flushed: the
\* INSERT fills status with the column default
create_tool_call(run_id, tool_name, args_redacted) ==
    [NoObj EXCEPT !.run_id = run_id, !.tool_name = tool_name,
                  !.args_redacted = args_redacted, !.status = DefaultStatus]

\* persist_decision: the Decision row added to the session
persist_decision(tool_call_id, decision, reason, risk_score) ==
    [tool_call_id |-> tool_call_id, decision |-> decision, reason |-> reason,
     risk_score |-> risk_score]

\* a status update that leaves the row as it is
update_tool_call_status_noop(tc, status, approved_at, approval_note, approved_by) == tc

\* update_tool_call_status(db, tool_call, status, approved_at=, approval_note=,
\* approved_by=)
update_tool_call_status(tc, status, approved_at, approval_note, approved_by) ==
    [tc EXCEPT !.status = status,
               !.approved_at = IF approved_at THEN TRUE ELSE @,
               !.approval_note = IF approval_note # NullStr THEN approval_note ELSE @,
               !.approved_by = IF approved_by # NullStr /\ "approved_by" \in ToolCallColumns
                               THEN approved_by ELSE @]

\* update_tool_call_result(db, tool_call, result_text)
update_tool_call_result(tc, result_text) == [tc EXCEPT !.result = result_text]

\* get_decision_for_tool_call: the most recent decision row of the tool call
\* (a one-element sequence), or the empty sequence for None
get_decision_for_tool_call(decs, id) ==
    IF decs[id] = <<>> THEN <<>> ELSE <<decs[id][Len(decs[id])]>>

\* decisions.risk_score is Column(Float, nullable=False): the INSERT of a row
\* with risk_score None is refused by the store
InsertAccepted(decs) == \A i \in 1..Len(decs) : decs[i].risk_score # NullRisk


(***************************************************************************)
(* app/graphql_schema.py: helpers of the three mutations                   *)
(***************************************************************************)
\* result.get("result") if ... else result, then json.dumps / str
ResultText(outcome) == IF outcome.val = NullStr THEN <<"None">> ELSE outcome.val

\* a failure reason that drops what the backend reported
FailureReasonGeneric(outcome) == <<"Tool call failed">>

\* detail or str(exc); f"Tool call failed: {reason_text}" when there is no detail
FailureReason(outcome) ==
    IF outcome.detail # NullStr /\ outcome.detail # <<>>
    THEN outcome.detail
    ELSE <<"Tool call failed: ">> \o outcome.text

\* the keys of parsed_args that are tool arguments / metadata
IsMeta(k) == StartsWith(k, <<"__">>)
ToolArgs(parsed) == [k \in {x \in DOMAIN parsed : ~IsMeta(x)} |-> parsed[k]]
MetaArgs(parsed) == [k \in {x \in DOMAIN parsed : IsMeta(x)} |-> parsed[k]]

\* a proposal whose run and tool call are committed on their own
CommitProposalRows(id, run, tc, decs) ==
    /\ runs' = runs @@ (id :> run)
    /\ tool_calls' = tool_calls @@ (id :> tc)
    /\ decisions' = decisions

\* db.commit() of a proposal: the run, the tool call and the pending decisions
\* become visible together
CommitProposal(id, run, tc, decs) ==
    /\ runs' = runs @@ (id :> run)
    /\ tool_calls' = tool_calls @@ (id :> tc)
    /\ decisions' = [decisions EXCEPT ![id] = @ \o decs]

\* a new request is taken by the lowest-numbered idle worker (the workers
\* are interchangeable)
Takes(p) ==
    /\ pc[p] = "idle"
    /\ \A q \in Procs : q < p => pc[q] # "idle"
    /\ served < MaxRequests
    /\ served' = served + 1

\* db = SessionLocal(): one more open session of the audit store
SessionLocal(open) == open + 1

\* a finally clause that leaves the session open
db_close_skipped(open) == open

\* finally: db.close()
db_close(open) == open - 1

\* the request handler of p is over: its session is closed, in the step that
\* opened it when the handler is one step
Finish(p, r) ==
    /\ sess' = [sess EXCEPT ![p] = IF pc[p] = "idle" THEN db_close(SessionLocal(@))
                                   ELSE db_close(@)]
    /\ pc' = [pc EXCEPT ![p] = "done"]
    /\ ret' = [ret EXCEPT ![p] = r]
    /\ obj' = [obj EXCEPT ![p] = NoObj]

(***************************************************************************)
(* Mutation.propose_tool_call                                              *)
(***************************************************************************)
\* args is no JSON object: run, tool call and a BLOCK decision with
\* risk_score=None are added and committed
ProposeInvalid(p, tool) ==
    /\ Takes(p)
    /\ nextId < MaxToolCalls
    /\ LET id == nextId + 1
           run == create_run(<<"manual">>, <<"manual">>)
           tc == create_tool_call(id, tool, (<<"error">> :> <<"invalid_args">>))
           decs == <<persist_decision(id, "BLOCK", <<"Invalid JSON in args">>, NullRisk)>>
       IN  /\ nextId' = id
           /\ loc' = [loc EXCEPT ![p] = [NoLoc EXCEPT !.op = "propose_invalid",
                                                     !.tool = tool, !.tcid = id]]
           /\ IF InsertAccepted(decs)
              THEN /\ CommitProposal(id, run, tc, decs)
                   /\ Finish(p, ToolDecision(id, "BLOCK", <<"Invalid JSON in args">>,
                                             NullStr, Null))
              ELSE /\ UNCHANGED store
                   /\ Finish(p, Raised)
    /\ UNCHANGED <<rules, lock, backendLog, pol, red, aside>>

\* the run and the tool call a proposal with a JSON object creates
ProposalRun(parsed) ==
    create_run(Get(MetaArgs(parsed), KOrchestrator, <<"manual">>),
               Get(MetaArgs(parsed), <<"__", "agent_role">>, <<"manual">>))

\* a proposal that stores the tool args as they came
ProposalToolCallRaw(id, tool, parsed) ==
    create_tool_call(id, tool, ToolArgs(parsed))

\* safe_args = redact_args(tool_args); create_tool_call(db, run.id, tool, safe_args)
ProposalToolCall(id, tool, parsed) ==
    create_tool_call(id, tool, redact_args(ToolArgs(parsed)))

\* evaluate_tool_call(tool, tool_args, context)
evaluate_tool_call(tool, tool_args) == evaluate_policy(tool, tool_args, rules)

\* the branches without the early return for APPROVAL_REQUIRED
BranchNoPending(v) == IF v.decision = "BLOCK" THEN "blocked" ELSE "execute"

\* the branch propose_tool_call takes on the verdict
Branch(v) ==
    IF v.decision = "APPROVAL_REQUIRED" THEN "pending"
    ELSE IF v.decision # "ALLOW" THEN "blocked"
    ELSE "execute"

\* verdict APPROVAL_REQUIRED or any other verdict that is not ALLOW: the whole
\* handler, up to its commit and return
ProposeNotAllowed(p, prop) ==
    /\ Takes(p)
    /\ nextId < MaxToolCalls
    /\ LET id == nextId + 1
           tool_args == ToolArgs(prop.args)
           v == evaluate_tool_call(prop.tool, tool_args)
           tc0 == ProposalToolCall(id, prop.tool, prop.args)
           tc == IF Branch(v) = "pending"
                 THEN update_tool_call_status(tc0, "PENDING", FALSE, NullStr, NullStr)
                 ELSE tc0
           decs == <<persist_decision(id, IF Branch(v) = "pending" THEN "APPROVAL_REQUIRED"
                                          ELSE v.decision,
                                      v.reason, v.risk_score)>>
       IN  /\ Branch(v) # "execute"
           /\ nextId' = id
           /\ loc' = [loc EXCEPT ![p] = [NoLoc EXCEPT !.op = "propose", !.tool = prop.tool,
                                                     !.args = tool_args, !.tcid = id,
                                                     !.verdict = v]]
           /\ CommitProposal(id, ProposalRun(prop.args), tc, decs)
           /\ Finish(p, ToolDecision(id, decs[1].decision, v.reason, NullStr,
                                     IF Branch(v) = "pending"
                                     THEN "PENDING" ELSE Null))
    /\ UNCHANGED <<rules, lock, backendLog, pol, red, aside>>

\* verdict ALLOW: run and tool call are flushed into the open transaction and
\* the handler goes on to the backend call
ProposeBegin(p, prop) ==
    /\ Takes(p)
    /\ nextId < MaxToolCalls
    /\ LET id == nextId + 1
           tool_args == ToolArgs(prop.args)
           v == evaluate_tool_call(prop.tool, tool_args)
       IN  /\ Branch(v) = "execute"
           /\ nextId' = id
           /\ loc' = [loc EXCEPT ![p] = [NoLoc EXCEPT !.op = "propose", !.tool = prop.tool,
                                                     !.args = tool_args, !.tcid = id,
                                                     !.run = ProposalRun(prop.args),
                                                     !.verdict = v]]
           /\ obj' = [obj EXCEPT ![p] = ProposalToolCall(id, prop.tool, prop.args)]
           /\ pc' = [pc EXCEPT ![p] = "p_exec"]
    /\ sess' = [sess EXCEPT ![p] = SessionLocal(@)]
    /\ UNCHANGED <<rules, store, lock, backendLog, ret, pol, red, aside>>

\* one invocation of tool_backend.call_tool, as the backend sees it
BackendCall(p, op, id, tool, args) ==
    [proc |-> p, op |-> op, tool_call_id |-> id, tool |-> tool, args |-> args]

\* result = tool_backend.call_tool(tool, tool_args)
ProposeCallBackend(p, outcome) ==
    /\ pc[p] = "p_exec"
    /\ backendLog' = [backendLog EXCEPT ![loc[p].tcid] =
                          Append(@, BackendCall(p, "propose", loc[p].tcid, loc[p].tool,
                                                loc[p].args))]
    /\ loc' = [loc EXCEPT ![p].outcome = outcome]
    /\ pc' = [pc EXCEPT ![p] = "p_called"]
    /\ UNCHANGED <<rules, served, store, nextId, lock, obj, ret, pol, red, aside, sess>>

\* after the backend call: on success result, status EXECUTED and an ALLOW
\* decision; on an exception a BLOCK decision; then commit and return
ProposeFinish(p) ==
    /\ pc[p] = "p_called"
    /\ LET id == loc[p].tcid
           v == loc[p].verdict
           out == loc[p].outcome
           tc == IF out.ok
                 THEN update_tool_call_status(
                          update_tool_call_result(obj[p], ResultText(out)),
                          "EXECUTED", FALSE, NullStr, NullStr)
                 ELSE obj[p]
           decs == IF out.ok
                   THEN <<persist_decision(id, "ALLOW", v.reason, v.risk_score)>>
                   ELSE <<persist_decision(id, "BLOCK", FailureReason(out), v.risk_score)>>
       IN  /\ CommitProposal(id, loc[p].run, tc, decs)
           /\ Finish(p, IF out.ok
                        THEN ToolDecision(id, "ALLOW", v.reason, ResultText(out), Null)
                        ELSE ToolDecision(id, "BLOCK", FailureReason(out), NullStr, Null))
    /\ UNCHANGED <<rules, served, nextId, lock, backendLog, loc, pol, red, aside>>


(***************************************************************************)
(* Mutation.approve_tool_call                                              *)
(***************************************************************************)
\* db.query(DbToolCall).filter(id == ...).first(): a one-element sequence, or
\* the empty sequence for None
QueryToolCall(id) == IF id \in DOMAIN tool_calls THEN <<tool_calls[id]>> ELSE <<>>

\* f"Tool call is not pending (status={tool_call.status})"
NotPendingReason(status) == <<"Tool call is not pending", " (status=", status, ")">>

\* a status test that lets every row through
IsPendingAlways(tc) == TRUE

\* the status test both approve_tool_call and deny_tool_call make on the row
\* they read
IsPending(tc) == tc.status = "PENDING"

\* the two early returns: no such row, or a row that is not PENDING
Rejected(id) ==
    IF QueryToolCall(id) = <<>> THEN TRUE ELSE ~IsPending(QueryToolCall(id)[1])

\* an early return that always reports a missing row
RejectionNotFound(id) ==
    ToolDecision(0, "BLOCK", <<"Tool call not found">>, NullStr, Null)

\* what both handlers return for a missing row or a row that is not pending
Rejection(id) ==
    IF QueryToolCall(id) = <<>>
    THEN ToolDecision(0, "BLOCK", <<"Tool call not found">>, NullStr, Null)
    ELSE ToolDecision(id, "BLOCK", NotPendingReason(QueryToolCall(id)[1].status),
                      NullStr, Null)

ApproveReject(p, id) ==
    /\ Takes(p)
    /\ Rejected(id)
    /\ loc' = [loc EXCEPT ![p] = [NoLoc EXCEPT !.op = "approve", !.tcid = id]]
    /\ Finish(p, Rejection(id))
    /\ UNCHANGED <<rules, store, nextId, lock, backendLog, pol, red, aside>>

\* the row was read and its status is PENDING
ApproveCheck(p, id, a) ==
    /\ Takes(p)
    /\ ~Rejected(id)
    /\ loc' = [loc EXCEPT ![p] = [NoLoc EXCEPT !.op = "approve", !.tcid = id,
                                              !.note = a.note, !.by = a.by]]
    /\ obj' = [obj EXCEPT ![p] = QueryToolCall(id)[1]]
    /\ pc' = [pc EXCEPT ![p] = "a_checked"]
    /\ sess' = [sess EXCEPT ![p] = SessionLocal(@)]
    /\ UNCHANGED <<rules, store, nextId, lock, backendLog, ret, pol, red, aside>>

\* approved_by or "manual"
ApproverOrManual(by) == IF by = NullStr \/ by = <<>> THEN <<"manual">> ELSE by

\* update_tool_call_status(APPROVED, ...); db.flush(): the UPDATE waits while
\* another open transaction has written the row
ApproveFlush(p) ==
    /\ pc[p] = "a_checked"
    /\ lock[loc[p].tcid] = 0
    /\ lock' = [lock EXCEPT ![loc[p].tcid] = p]
    /\ obj' = [obj EXCEPT ![p] = update_tool_call_status(@, "APPROVED", TRUE, loc[p].note,
                                                        ApproverOrManual(loc[p].by))]
    /\ pc' = [pc EXCEPT ![p] = "a_flushed"]
    /\ UNCHANGED <<rules, served, store, nextId, backendLog, loc, ret, pol, red, aside, sess>>

\* tool_backend.call_tool(tool_call.tool_name, tool_call.args_redacted or {})
ApproveCallBackend(p, outcome) ==
    /\ pc[p] = "a_flushed"
    /\ backendLog' = [backendLog EXCEPT ![loc[p].tcid] =
                          Append(@, BackendCall(p, "approve", loc[p].tcid, obj[p].tool_name,
                                                obj[p].args_redacted))]
    /\ loc' = [loc EXCEPT ![p].outcome = outcome]
    /\ pc' = [pc EXCEPT ![p] = "a_called"]
    /\ UNCHANGED <<rules, served, store, nextId, lock, obj, ret, pol, red, aside, sess>>

\* the attributes the session wrote, applied to the committed row
CommitToolCall(id, tc) ==
    tool_calls' = [tool_calls EXCEPT ![id] =
                      [@ EXCEPT !.status = tc.status, !.approved_at = tc.approved_at,
                                !.approval_note = tc.approval_note,
                                !.approved_by = tc.approved_by, !.result = tc.result]]

\* the status approve_tool_call leaves on the row, whatever the backend did
ApprovedFinalStatus(outcome) == "EXECUTED"

\* result, decision (ALLOW "Approved" or BLOCK), status, commit, return
ApproveFinish(p) ==
    /\ pc[p] = "a_called"
    /\ LET id == loc[p].tcid
           out == loc[p].outcome
           result_text == IF out.ok THEN ResultText(out) ELSE NullStr
           decision_value == IF out.ok THEN "ALLOW" ELSE "BLOCK"
           reason_text == IF out.ok THEN <<"Approved">> ELSE FailureReason(out)
           prior == get_decision_for_tool_call(decisions, id)
           risk_score == IF prior = <<>> THEN 0 ELSE prior[1].risk_score
           tc == update_tool_call_status(update_tool_call_result(obj[p], result_text),
                                         ApprovedFinalStatus(out), FALSE, NullStr, NullStr)
       IN  /\ CommitToolCall(id, tc)
           /\ decisions' = [decisions EXCEPT ![id] =
                                 Append(@, persist_decision(id, decision_value, reason_text,
                                                            risk_score))]
           /\ lock' = [lock EXCEPT ![id] = 0]
           /\ Finish(p, ToolDecision(id, decision_value, reason_text, result_text, tc.status))
    /\ UNCHANGED <<rules, served, runs, nextId, backendLog, loc, pol, red, aside>>

(***************************************************************************)
(* Mutation.deny_tool_call                                                 *)
(***************************************************************************)
DenyReject(p, id) ==
    /\ Takes(p)
    /\ Rejected(id)
    /\ loc' = [loc EXCEPT ![p] = [NoLoc EXCEPT !.op = "deny", !.tcid = id]]
    /\ Finish(p, Rejection(id))
    /\ UNCHANGED <<rules, store, nextId, lock, backendLog, pol, red, aside>>

DenyCheck(p, id, a) ==
    /\ Takes(p)
    /\ ~Rejected(id)
    /\ loc' = [loc EXCEPT ![p] = [NoLoc EXCEPT !.op = "deny", !.tcid = id,
                                              !.note = a.note, !.by = a.by]]
    /\ obj' = [obj EXCEPT ![p] = QueryToolCall(id)[1]]
    /\ pc' = [pc EXCEPT ![p] = "d_checked"]
    /\ sess' = [sess EXCEPT ![p] = SessionLocal(@)]
    /\ UNCHANGED <<rules, store, nextId, lock, backendLog, ret, pol, red, aside>>

\* update_tool_call_status(DENIED, ...); db.flush(); the prior decision is
\* read; db.commit(); return
DenyCommit(p) ==
    /\ pc[p] = "d_checked"
    /\ lock[loc[p].tcid] = 0
    /\ LET id == loc[p].tcid
           tc == update_tool_call_status(obj[p], "DENIED", TRUE, loc[p].note,
                                         ApproverOrManual(loc[p].by))
           prior == get_decision_for_tool_call(decisions, id)
           decision_value == IF prior = <<>> THEN "APPROVAL_REQUIRED" ELSE prior[1].decision
           reason_value ==
               IF loc[p].note # NullStr /\ loc[p].note # <<>> THEN loc[p].note
               ELSE IF prior # <<>> /\ prior[1].reason # <<>> THEN prior[1].reason
               ELSE <<"Denied">>
       IN  /\ CommitToolCall(id, tc)
           /\ Finish(p, ToolDecision(id, decision_value, reason_value, NullStr, "DENIED"))
    /\ UNCHANGED <<rules, served, runs, decisions, nextId, lock, backendLog, loc, pol, red, aside>>

\* the caller has the response; the worker takes the next request
Return(p) ==
    /\ pc[p] = "done"
    /\ pc' = [pc EXCEPT ![p] = "idle"]
    /\ loc' = [loc EXCEPT ![p] = NoLoc]
    /\ ret' = [ret EXCEPT ![p] = NoRet]
    /\ UNCHANGED <<rules, served, store, nextId, lock, backendLog, obj, pol, red, aside, sess>>

Next ==
    \E p \in Procs :
        \/ \E tool \in InvalidProposalTools : ProposeInvalid(p, tool)
        \/ \E prop \in Proposals : ProposeNotAllowed(p, prop)
        \/ \E prop \in Proposals : ProposeBegin(p, prop)
        \/ \E outcome \in BackendOutcomes : ProposeCallBackend(p, outcome)
        \/ ProposeFinish(p)
        \/ \E id \in 1..MaxToolCalls : ApproveReject(p, id)
        \/ \E id \in 1..MaxToolCalls, a \in Approvals : ApproveCheck(p, id, a)
        \/ ApproveFlush(p)
        \/ \E outcome \in BackendOutcomes : ApproveCallBackend(p, outcome)
        \/ ApproveFinish(p)
        \/ \E id \in 1..MaxToolCalls : DenyReject(p, id)
        \/ \E id \in 1..MaxToolCalls, a \in Approvals : DenyCheck(p, id, a)
        \/ DenyCommit(p)
        \/ Return(p)

Spec == Init /\ [][Next]_vars


(***************************************************************************)
(* The same handlers with the requests served one after the other: a       *)
(* request is taken only when no other request is in flight.               *)
(***************************************************************************)
Quiet(p) == \A q \in Procs \ {p} : pc[q] = "idle"

SeqNext ==
    \E p \in Procs :
        \/ \E tool \in InvalidProposalTools : Quiet(p) /\ ProposeInvalid(p, tool)
        \/ \E prop \in Proposals : Quiet(p) /\ ProposeNotAllowed(p, prop)
        \/ \E prop \in Proposals : Quiet(p) /\ ProposeBegin(p, prop)
        \/ \E outcome \in BackendOutcomes : Quiet(p) /\ ProposeCallBackend(p, outcome)
        \/ Quiet(p) /\ ProposeFinish(p)
        \/ \E id \in 1..MaxToolCalls : Quiet(p) /\ ApproveReject(p, id)
        \/ \E id \in 1..MaxToolCalls, a \in Approvals : Quiet(p) /\ ApproveCheck(p, id, a)
        \/ Quiet(p) /\ ApproveFlush(p)
        \/ \E outcome \in BackendOutcomes : Quiet(p) /\ ApproveCallBackend(p, outcome)
        \/ Quiet(p) /\ ApproveFinish(p)
        \/ \E id \in 1..MaxToolCalls : Quiet(p) /\ DenyReject(p, id)
        \/ \E id \in 1..MaxToolCalls, a \in Approvals : Quiet(p) /\ DenyCheck(p, id, a)
        \/ Quiet(p) /\ DenyCommit(p)
        \/ Quiet(p) /\ Return(p)

SeqSpec == Init /\ [][SeqNext]_vars

(***************************************************************************)
(* The handlers, one request at a time, over an audit store whose writes   *)
(* and commits can fail: flush() or commit() raises, nothing in the        *)
(* handlers catches it, the session is closed and its transaction is       *)
(* rolled back.                                                            *)
(***************************************************************************)
\* a handler that reports the decision it was about to commit
OnStoreFailureReport(d) == d

\* what the caller gets when flush() or commit() raises: the exception
\* passes through finally: db.close() and no ToolDecision is returned
OnStoreFailure(d) == Raised

\* the exception leaves the handler of p; d is the ToolDecision the handler
\* would have returned
StoreFails(p, d) ==
    /\ UNCHANGED store
    /\ Finish(p, OnStoreFailure(d))

\* propose_tool_call: a flush or the commit fails before any backend call
\* (create_run, create_tool_call, or the commit of a verdict that is not
\* ALLOW)
ProposeStoreFails(p, prop) ==
    /\ Takes(p)
    /\ LET v == evaluate_tool_call(prop.tool, ToolArgs(prop.args))
       IN  /\ loc' = [loc EXCEPT ![p] = [NoLoc EXCEPT !.op = "propose", !.tool = prop.tool,
                                                     !.args = ToolArgs(prop.args),
                                                     !.verdict = v, !.fault = TRUE]]
           /\ StoreFails(p, ToolDecision(0, v.decision, v.reason, NullStr, Null))
    /\ UNCHANGED <<rules, nextId, lock, backendLog, pol, red, aside>>

\* propose_tool_call, verdict ALLOW: the commit after the backend call fails
ProposeCommitFails(p) ==
    /\ pc[p] = "p_called"
    /\ loc' = [loc EXCEPT ![p].fault = TRUE]
    /\ LET out == loc[p].outcome
       IN  StoreFails(p, IF out.ok
                         THEN ToolDecision(loc[p].tcid, "ALLOW", loc[p].verdict.reason,
                                           ResultText(out), Null)
                         ELSE ToolDecision(loc[p].tcid, "BLOCK", FailureReason(out),
                                           NullStr, Null))
    /\ UNCHANGED <<rules, served, nextId, lock, backendLog, pol, red, aside>>

\* approve_tool_call: the flush of the APPROVED update fails
ApproveFlushFails(p) ==
    /\ pc[p] = "a_checked"
    /\ loc' = [loc EXCEPT ![p].fault = TRUE]
    /\ StoreFails(p, ToolDecision(loc[p].tcid, "BLOCK", <<>>, NullStr, Null))
    /\ UNCHANGED <<rules, served, nextId, lock, backendLog, pol, red, aside>>

\* approve_tool_call: the commit after the backend call fails; the row lock
\* goes with the transaction
ApproveCommitFails(p) ==
    /\ pc[p] = "a_called"
    /\ loc' = [loc EXCEPT ![p].fault = TRUE]
    /\ lock' = [lock EXCEPT ![loc[p].tcid] = 0]
    /\ LET out == loc[p].outcome
       IN  StoreFails(p, IF out.ok
                         THEN ToolDecision(loc[p].tcid, "ALLOW", <<"Approved">>,
                                           ResultText(out), "EXECUTED")
                         ELSE ToolDecision(loc[p].tcid, "BLOCK", FailureReason(out),
                                           NullStr, "EXECUTED"))
    /\ UNCHANGED <<rules, served, nextId, backendLog, pol, red, aside>>

\* deny_tool_call: the flush or the commit of the DENIED update fails
DenyCommitFails(p) ==
    /\ pc[p] = "d_checked"
    /\ loc' = [loc EXCEPT ![p].fault = TRUE]
    /\ StoreFails(p, ToolDecision(loc[p].tcid, "APPROVAL_REQUIRED", <<>>, NullStr, "DENIED"))
    /\ UNCHANGED <<rules, served, nextId, lock, backendLog, pol, red, aside>>

FaultNext ==
    \/ SeqNext
    \/ \E p \in Procs :
           \/ \E prop \in Proposals : Quiet(p) /\ ProposeStoreFails(p, prop)
           \/ Quiet(p) /\ ProposeCommitFails(p)
           \/ Quiet(p) /\ ApproveFlushFails(p)
           \/ Quiet(p) /\ ApproveCommitFails(p)
           \/ Quiet(p) /\ DenyCommitFails(p)

FaultSpec == Init /\ [][FaultNext]_vars

(***************************************************************************)
(* The policy engine alone: evaluate_policy applied to one (tool, args)    *)
(* under one rule table.                                                   *)
(***************************************************************************)
PathTokens == {"/", "sandbox", "..", "f", ".env"}

PolicyPaths == UNION {[1..k -> PathTokens] : k \in 0..MaxPathLen}

PolicyArgs == {<<>>} \cup {(KPath :> path) : path \in PolicyPaths}

FsTools == {FsListDir, FsReadFile, FsWriteFile}

PolicyTools == FsTools \cup {GhIssue, MadeUp}

PolicyInit ==
    /\ rules \in RuleTables
    /\ pol \in {[tool |-> t, args |-> a, out |-> NoVerdict] :
                   t \in PolicyTools, a \in PolicyArgs}
    /\ runs = <<>>
    /\ tool_calls = <<>>
    /\ decisions = [i \in 1..MaxToolCalls |-> <<>>]
    /\ nextId = 0
    /\ served = 0
    /\ lock = [i \in 1..MaxToolCalls |-> 0]
    /\ backendLog = [i \in 1..MaxToolCalls |-> <<>>]
    /\ pc = [p \in Procs |-> "idle"]
    /\ sess = [p \in Procs |-> 0]
    /\ loc = [p \in Procs |-> NoLoc]
    /\ obj = [p \in Procs |-> NoObj]
    /\ ret = [p \in Procs |-> NoRet]
    /\ red = NoRed
    /\ AsideInit

PolicyEval ==
    /\ pol.out = NoVerdict
    /\ pol' = [pol EXCEPT !.out = evaluate_policy(pol.tool, pol.args, rules)]
    /\ UNCHANGED <<rules, store, nextId, served, lock, backendLog, pc, loc, obj, ret, red, aside, sess>>

PolicySpec == PolicyInit /\ [][PolicyEval]_vars


(***************************************************************************)
(* The redactor alone: redact_args applied to a key/value map, and then to *)
(* its own output.                                                         *)
(***************************************************************************)
RedactKeys == {KContent, KApiKey}

RedactTokens == {"a", ".env", ".pem", "{", "***REDACTED***"}

RedactValues == UNION {[1..k -> RedactTokens] : k \in 0..MaxValueLen}

RedactInputs == UNION {[keys -> RedactValues] : keys \in SUBSET RedactKeys}

RedactInit ==
    /\ red \in {[NoRed EXCEPT !.args = a] : a \in RedactInputs}
    /\ rules = DeployedRules
    /\ pol = NoPol
    /\ runs = <<>>
    /\ tool_calls = <<>>
    /\ decisions = [i \in 1..MaxToolCalls |-> <<>>]
    /\ nextId = 0
    /\ served = 0
    /\ lock = [i \in 1..MaxToolCalls |-> 0]
    /\ backendLog = [i \in 1..MaxToolCalls |-> <<>>]
    /\ pc = [p \in Procs |-> "idle"]
    /\ sess = [p \in Procs |-> 0]
    /\ loc = [p \in Procs |-> NoLoc]
    /\ obj = [p \in Procs |-> NoObj]
    /\ ret = [p \in Procs |-> NoRet]
    /\ AsideInit

\* redacted = redact_args(args)
RedactOnce ==
    /\ red.applied = 0
    /\ red' = [red EXCEPT !.applied = 1, !.once = redact_args(red.args)]
    /\ UNCHANGED <<rules, store, nextId, served, lock, backendLog, pc, loc, obj, ret, pol, aside, sess>>

\* redact_args(redacted)
RedactAgain ==
    /\ red.applied = 1
    /\ red' = [red EXCEPT !.applied = 2, !.twice = redact_args(red.once)]
    /\ UNCHANGED <<rules, store, nextId, served, lock, backendLog, pc, loc, obj, ret, pol, aside, sess>>

RedactNext == RedactOnce \/ RedactAgain

RedactSpec == RedactInit /\ [][RedactNext]_vars


(***************************************************************************)
(* Properties.                                                             *)
(***************************************************************************)
ToolCallIds == 1..MaxToolCalls

HasDecision(id, d) == \E i \in 1..Len(decisions[id]) : decisions[id][i].decision = d

\* the request of p was a proposal and its handler is over
ProposalDone(p) == pc[p] = "done" /\ loc[p].op \in {"propose", "propose_invalid"}

\* the proposal of p got verdict ALLOW and its backend call raised
BackendRaised(p) ==
    /\ ProposalDone(p)
    /\ loc[p].verdict.decision = "ALLOW"
    /\ ~loc[p].outcome.ok

\* the backend was invoked by the proposal that created tool call id
InvokedByProposal(id) ==
    \E i \in 1..Len(backendLog[id]) : backendLog[id][i].op = "propose"

\* C1: no committed tool call has status EXECUTED without an ALLOW decision
\* for that tool call.
C1_ExecutedHasAllow ==
    \A id \in DOMAIN tool_calls :
        tool_calls[id].status = "EXECUTED" => HasDecision(id, "ALLOW")

\* C2: the backend is invoked at most once for a tool call, whatever the
\* interleaving of the approve_tool_call requests on it.
C2_BackendAtMostOnce == \A id \in ToolCallIds : Len(backendLog[id]) <= 1

\* C3: whenever the backend has been invoked for a tool call, a decision for
\* that tool call has been persisted in the audit store.
C3_DecisionBeforeBackend ==
    \A id \in ToolCallIds : backendLog[id] # <<>> => decisions[id] # <<>>

TerminalStatuses == {"EXECUTED", "DENIED", "FAILED"}

C5_NotAllowedNoBackend ==
    \A p \in Procs :
        ProposalDone(p) /\ loc[p].verdict.decision # "ALLOW"
            => /\ ~InvokedByProposal(loc[p].tcid)
               /\ ret[p].kind = "decision" => ret[p].result = NullStr

\* a proposal of an unknown tool has returned BLOCK
C5_Witness ==
    \E p \in Procs :
        /\ ProposalDone(p)
        /\ loc[p].tool = MadeUp
        /\ ret[p].decision = "BLOCK"
        /\ ret[p].reason = <<"Unknown tool">>

\* args of fs.write_file the policy is tried on under every rule table
WriteArgsSample ==
    { <<>>,
      (KPath :> <<>>),
      (KPath :> <<"f">>),
      (KPath :> <<"/", "sandbox", "/", "f">>),
      (KPath :> <<"/", "etc", "/", "f">>),
      (KPath :> <<"/", "sandbox", "/", "..", "/", "f">>) @@ (KContent :> <<"hi">>) }

\* C6: the verdict for fs.write_file is BLOCK or APPROVAL_REQUIRED under every
\* rule table, and the backend is invoked for fs.write_file only by an
\* approve_tool_call on a tool call whose proposal got APPROVAL_REQUIRED.
C6_WriteNeedsApproval ==
    /\ \A table \in RuleTables, a \in WriteArgsSample :
           evaluate_policy(FsWriteFile, a, table).decision \in {"BLOCK", "APPROVAL_REQUIRED"}
    /\ \A p \in Procs :
           loc[p].op = "propose" /\ loc[p].tool = FsWriteFile
               => loc[p].verdict.decision \in {"BLOCK", "APPROVAL_REQUIRED"}
    /\ \A id \in ToolCallIds : \A i \in 1..Len(backendLog[id]) :
           backendLog[id][i].tool = FsWriteFile
               => /\ backendLog[id][i].op = "approve"
                  /\ decisions[id] # <<>>
                  /\ decisions[id][1].decision = "APPROVAL_REQUIRED"

\* the backend has been invoked for fs.write_file by an approve
C6_Witness ==
    \E id \in ToolCallIds : \E i \in 1..Len(backendLog[id]) :
        backendLog[id][i].tool = FsWriteFile /\ backendLog[id][i].op = "approve"

\* the path a segment list resolves to: "." and ".." are applied, the result
\* is the list of directory names below "/"
ApplySegment(stack, seg) ==
    IF seg = <<>> \/ seg = <<".">> THEN stack
    ELSE IF seg = <<"..">>
         THEN (IF stack = <<>> THEN stack ELSE SubSeq(stack, 1, Len(stack) - 1))
    ELSE Append(stack, seg)

RECURSIVE Resolve(_, _, _)
Resolve(toks, stack, seg) ==
    IF toks = <<>> THEN ApplySegment(stack, seg)
    ELSE IF Head(toks) = "/" THEN Resolve(Tail(toks), ApplySegment(stack, seg), <<>>)
    ELSE Resolve(Tail(toks), stack, Append(seg, Head(toks)))

\* the path names a location inside the sandbox root; a relative path is taken
\* relative to the root; a missing or empty path names no location inside it
InsideSandbox(path) ==
    /\ path # <<>>
    /\ LET dirs == IF Head(path) = "/" THEN Resolve(path, <<>>, <<>>)
                   ELSE Resolve(path, <<<<"sandbox">>>>, <<>>)
       IN  dirs # <<>> /\ dirs[1] = <<"sandbox">>

\* C7: for the built-in filesystem tools the verdict is BLOCK for every path
\* argument that is not inside the sandbox root.
C7_SandboxBoundary ==
    pol.out # NoVerdict /\ pol.tool \in FsTools /\ ~InsideSandbox(Get(pol.args, KPath, <<>>))
        => pol.out.decision = "BLOCK"

\* C8: when a proposal completes, exactly one tool-call row of its run and at
\* least one decision row of that tool call are in the audit store.
C8_OneToolCallSomeDecision ==
    \A p \in Procs :
        ProposalDone(p)
            => /\ Cardinality({id \in DOMAIN tool_calls :
                                  tool_calls[id].run_id = loc[p].tcid}) = 1
               /\ decisions[loc[p].tcid] # <<>>

\* the reason carries what the backend reported: the detail of its error
\* response, or else the text of the exception
CarriesBackendError(reason, outcome) ==
    IF outcome.detail # NullStr /\ outcome.detail # <<>>
    THEN reason = outcome.detail
    ELSE /\ outcome.text # <<>>
         /\ Len(reason) >= Len(outcome.text)
         /\ SubSeq(reason, Len(reason) - Len(outcome.text) + 1, Len(reason)) = outcome.text

\* C9: when the backend raises in a proposal with verdict ALLOW, the proposal
\* returns BLOCK with result null and a reason carrying the backend's error,
\* a BLOCK decision with that reason is persisted, and the tool call has no
\* ALLOW decision.
C9_BackendFailureIsBlock ==
    \A p \in Procs :
        BackendRaised(p)
            => /\ ret[p].kind = "decision"
               /\ ret[p].decision = "BLOCK"
               /\ ret[p].result = NullStr
               /\ CarriesBackendError(ret[p].reason, loc[p].outcome)
               /\ \E i \in 1..Len(decisions[loc[p].tcid]) :
                      /\ decisions[loc[p].tcid][i].decision = "BLOCK"
                      /\ decisions[loc[p].tcid][i].reason = ret[p].reason
               /\ ~HasDecision(loc[p].tcid, "ALLOW")

\* a proposal with verdict ALLOW has returned after its backend call timed out
C9_Witness ==
    \E p \in Procs :
        /\ BackendRaised(p)
        /\ loc[p].outcome.text = <<"timed out">>
        /\ ret[p].decision = "BLOCK"

\* C10: when the backend raises in a proposal with verdict ALLOW, the status
\* of the tool call after the proposal is not EXECUTED.
C10_FailedNotExecuted ==
    \A p \in Procs :
        BackendRaised(p) /\ loc[p].tcid \in DOMAIN tool_calls
            => tool_calls[loc[p].tcid].status # "EXECUTED"

\* the approve of p got past the PENDING check and its backend call raised
ApproveRaised(p) ==
    /\ pc[p] = "done"
    /\ loc[p].op = "approve"
    /\ ~loc[p].outcome.ok
    /\ loc[p].outcome.text # <<>>

\* C11: when the backend raises during an approve of a PENDING tool call, a
\* BLOCK decision is appended, the status of the tool call is not EXECUTED,
\* its result is null, and the returned ToolDecision does not report
\* final_status EXECUTED.
C11_ApproveFailureNotExecuted ==
    \A p \in Procs :
        ApproveRaised(p)
            => /\ HasDecision(loc[p].tcid, "BLOCK")
               /\ tool_calls[loc[p].tcid].status # "EXECUTED"
               /\ tool_calls[loc[p].tcid].result = NullStr
               /\ ret[p].final_status # "EXECUTED"

\* the approve of p got past the PENDING check and its backend call returned
ApproveSucceeded(p) ==
    /\ pc[p] = "done"
    /\ loc[p].op = "approve"
    /\ loc[p].outcome.ok

\* the most recent decision of tool call id is verdict d with reason r
LatestDecisionIs(id, d, r) ==
    /\ decisions[id] # <<>>
    /\ decisions[id][Len(decisions[id])].decision = d
    /\ decisions[id][Len(decisions[id])].reason = r

\* what C12 says of an approve with a succeeding backend, the approver aside
ApprovedAndExecuted(p) ==
    /\ ret[p].final_status = "EXECUTED"
    /\ tool_calls[loc[p].tcid].status = "EXECUTED"
    /\ tool_calls[loc[p].tcid].result # NullStr
    /\ LatestDecisionIs(loc[p].tcid, "ALLOW", <<"Approved">>)

\* C12: after an approve with a succeeding backend, served on its own, the
\* ToolDecision reports final_status EXECUTED and the tool call has status
\* EXECUTED, a non-null result, a latest decision ALLOW "Approved", and
\* approved_by equal to the approver that was given.
C12_ApprovalFlow ==
    \A p \in Procs :
        ApproveSucceeded(p)
            => /\ ApprovedAndExecuted(p)
               /\ loc[p].by # NullStr => tool_calls[loc[p].tcid].approved_by = loc[p].by

\* the handler of p returns in this step from a proposal with verdict
\* APPROVAL_REQUIRED
ReturnsApprovalRequired(p) ==
    /\ pc[p] # "done"
    /\ pc'[p] = "done"
    /\ loc'[p].op = "propose"
    /\ loc'[p].verdict.decision = "APPROVAL_REQUIRED"

\* C13: a proposal with verdict APPROVAL_REQUIRED leaves its tool call PENDING
\* with exactly one decision, APPROVAL_REQUIRED, and returns APPROVAL_REQUIRED
\* with final_status PENDING and result null; a PENDING tool call changes
\* status only in a step of an approve or deny that names it.
C13_ParkedPending ==
    [][/\ \A p \in Procs :
              ReturnsApprovalRequired(p)
                  => /\ loc'[p].tcid \in DOMAIN tool_calls'
                     /\ tool_calls'[loc'[p].tcid].status = "PENDING"
                     /\ Len(decisions'[loc'[p].tcid]) = 1
                     /\ decisions'[loc'[p].tcid][1].decision = "APPROVAL_REQUIRED"
                     /\ ret'[p].kind = "decision"
                     /\ ret'[p].decision = "APPROVAL_REQUIRED"
                     /\ ret'[p].final_status = "PENDING"
                     /\ ret'[p].result = NullStr
       /\ \A id \in DOMAIN tool_calls :
              tool_calls[id].status = "PENDING" /\ tool_calls'[id].status # "PENDING"
                  => \E p \in Procs : /\ pc'[p] # pc[p]
                                      /\ loc[p].op \in {"approve", "deny"}
                                      /\ loc[p].tcid = id]_vars

\* a proposal has returned APPROVAL_REQUIRED and its tool call is PENDING with
\* its single decision
C13_Witness ==
    \E id \in DOMAIN tool_calls :
        /\ tool_calls[id].status = "PENDING"
        /\ Len(decisions[id]) = 1
        /\ decisions[id][1].decision = "APPROVAL_REQUIRED"
        /\ \E p \in Procs : /\ pc[p] = "done"
                            /\ loc[p].op = "propose"
                            /\ loc[p].tcid = id
                            /\ ret[p].final_status = "PENDING"

\* p takes an approve or deny request in this step
TakesApproval(p) == pc[p] = "idle" /\ pc'[p] # "idle" /\ loc'[p].op \in {"approve", "deny"}

\* the request p takes names no tool call, or one that is not PENDING
NamesNoPending(p) ==
    IF loc'[p].tcid \in DOMAIN tool_calls
    THEN tool_calls[loc'[p].tcid].status # "PENDING"
    ELSE TRUE

\* the step leaves the audit store and the backend alone
StoreAndBackendUntouched ==
    /\ runs' = runs
    /\ tool_calls' = tool_calls
    /\ decisions' = decisions
    /\ backendLog' = backendLog

\* p returns BLOCK with the given reason and nothing else
ReturnsBlock(p, reason) ==
    /\ pc'[p] = "done"
    /\ ret'[p].kind = "decision"
    /\ ret'[p].decision = "BLOCK"
    /\ ret'[p].reason = reason
    /\ ret'[p].result = NullStr
    /\ ret'[p].final_status = Null

DenyCompletes(p) == loc[p].op = "deny" /\ pc[p] = "d_checked" /\ pc'[p] = "done"

\* what C15 says of a completed deny, the stored approver aside
DeniedAndEchoed(p) ==
    LET id == loc[p].tcid
        last == decisions[id][Len(decisions[id])]
    IN  /\ tool_calls'[id].status = "DENIED"
        /\ tool_calls'[id].approved_at
        /\ loc[p].note # NullStr => tool_calls'[id].approval_note = loc[p].note
        /\ backendLog' = backendLog
        /\ decisions' = decisions
        /\ ret'[p].kind = "decision"
        /\ ret'[p].final_status = "DENIED"
        /\ ret'[p].result = NullStr
        /\ ret'[p].decision = last.decision
        /\ ret'[p].reason = IF loc[p].note # NullStr THEN loc[p].note ELSE last.reason

\* C15: a deny on a PENDING tool call sets status DENIED with approver, note
\* and timestamp, invokes no backend, appends no decision, and returns
\* final_status DENIED, result null, the verdict of the latest decision, and
\* as reason the note when one is given and the prior reason otherwise.
C15_DenyRecorded ==
    [][\A p \in Procs :
          DenyCompletes(p)
              => /\ DeniedAndEchoed(p)
                 /\ tool_calls'[loc[p].tcid].approved_by
                        = (IF loc[p].by # NullStr THEN loc[p].by ELSE <<"manual">>)]_vars

\* no request is in flight
Quiescent == \A p \in Procs : pc[p] \in {"idle", "done"}

\* C16: whatever the interleaving of an approve and a deny on one PENDING
\* tool call, once both are over a tool call with status DENIED has had no
\* backend invocation.
C16_ApproveDenyExclusive ==
    Quiescent
        => \A id \in DOMAIN tool_calls :
               tool_calls[id].status = "DENIED" => backendLog[id] = <<>>

\* the raw secret values and the credential-path markers the proposals carry
RawSecrets == {"s3cr3t", "hunter2", ".env", ".key", ".pem"}

\* no value of the stored args holds a raw secret or a credential path
NoRawSecret(stored) ==
    \A k \in DOMAIN stored : \A i \in 1..Len(stored[k]) : stored[k][i] \notin RawSecrets

\* the proposal that writes tool-call row id in this step
WrittenBy(p, id) == loc'[p].op = "propose" /\ loc'[p].tcid = id /\ pc'[p] # pc[p]

\* C17: every tool-call row a proposal writes stores redact_args of the
\* proposal's non-meta arguments, and the stored args hold no raw value of a
\* sensitive key and no credential-path string of the raw args.
C17_StoredArgsRedacted ==
    [][\A id \in DOMAIN tool_calls' \ DOMAIN tool_calls :
          \E p \in Procs :
              /\ WrittenBy(p, id)
              /\ tool_calls'[id].args_redacted = redact_args(loc'[p].args)
              /\ NoRawSecret(tool_calls'[id].args_redacted)]_vars

\* the first half of C17 alone: the stored args are redact_args of the
\* non-meta arguments
StoredIsRedactArgs ==
    [][\A id \in DOMAIN tool_calls' \ DOMAIN tool_calls :
          \E p \in Procs :
              WrittenBy(p, id) /\ tool_calls'[id].args_redacted = redact_args(loc'[p].args)]_vars

Masks == {<<"***REDACTED***">>, <<"***REDACTED_PATH***">>}

\* C18: redacting a redacted map changes nothing, and a value the redactor
\* did not mask is returned unchanged under its original key.
C18_RedactIdempotent ==
    /\ red.applied >= 1
           => /\ DOMAIN red.once = DOMAIN red.args
              /\ \A k \in DOMAIN red.args :
                     red.once[k] \notin Masks => red.once[k] = red.args[k]
    /\ red.applied = 2 => red.twice = red.once

\* a map with a masked credential path and a value left alone has been
\* redacted twice
C18_Witness ==
    /\ red.applied = 2
    /\ KContent \in DOMAIN red.args
    /\ red.args[KContent] = <<"a", ".env">>
    /\ red.once[KContent] = <<"***REDACTED_PATH***">>
    /\ KApiKey \in DOMAIN red.args
    /\ red.args[KApiKey] = <<"a">>
    /\ red.twice[KApiKey] = <<"***REDACTED***">>

\* C19: a proposal whose args are no JSON object leaves one run, one tool call
\* with stored args {error: "invalid_args"} and one BLOCK decision "Invalid
\* JSON in args", returns that BLOCK decision with the id of the new tool
\* call, and invokes no backend.
C19_InvalidArgsRecorded ==
    \A p \in Procs :
        pc[p] = "done" /\ loc[p].op = "propose_invalid"
            => /\ loc[p].tcid \in DOMAIN runs
               /\ loc[p].tcid \in DOMAIN tool_calls
               /\ tool_calls[loc[p].tcid].args_redacted = (<<"error">> :> <<"invalid_args">>)
               /\ Len(decisions[loc[p].tcid]) = 1
               /\ decisions[loc[p].tcid][1].decision = "BLOCK"
               /\ decisions[loc[p].tcid][1].reason = <<"Invalid JSON in args">>
               /\ ret[p].kind = "decision"
               /\ ret[p].decision = "BLOCK"
               /\ ret[p].reason = <<"Invalid JSON in args">>
               /\ ret[p].tool_call_id = loc[p].tcid
               /\ backendLog[loc[p].tcid] = <<>>

\* the ToolDecision p got is backed by a committed decision of its tool call
Acknowledged(p) ==
    /\ ret[p].tool_call_id \in DOMAIN tool_calls
    /\ \E i \in 1..Len(decisions[ret[p].tool_call_id]) :
           /\ decisions[ret[p].tool_call_id][i].decision = ret[p].decision
           /\ decisions[ret[p].tool_call_id][i].reason = ret[p].reason

\* C20: a propose or approve in which a write or commit of the audit store
\* failed returns no ToolDecision; so a ToolDecision that a proposal, or an
\* approve that reached the backend, returns is backed by committed rows, and
\* success of the backend is never reported when the commit failed.
C20_AuditFailureFatal ==
    \A p \in Procs :
        /\ loc[p].fault => pc[p] = "done" /\ ret[p].kind = "error"
        /\ pc[p] = "done" /\ ret[p].kind = "decision"
               /\ (loc[p].op = "propose" \/ (loc[p].op = "approve" /\ loc[p].outcome # NoOutcome))
                   => Acknowledged(p)

\* the backend call of an ALLOW proposal succeeded, the commit failed, and
\* the caller got an error
C20_Witness ==
    \E p \in Procs :
        /\ pc[p] = "done"
        /\ loc[p].op = "propose"
        /\ loc[p].fault
        /\ loc[p].outcome.ok
        /\ backendLog[loc[p].tcid] # <<>>
        /\ loc[p].tcid \notin DOMAIN tool_calls
        /\ ret[p].kind = "error"

(***************************************************************************)
(* Citations: core/policy_graph.py and policy_graph.py.  The policy graph  *)
(* is in one of the conditions below; a seeded graph answers the citation  *)
(* query with three lists of ids, in which an id can be empty.             *)
(***************************************************************************)
GraphConditions ==
    {"import_failed", "unconfigured", "unreachable", "raises", "no_schema", "no_record", "ready"}

Degraded == GraphConditions \ {"ready"}

Graphs ==
    [cond : GraphConditions,
     policies : {<<>>, <<"POL-1">>, <<"POL-1", "">>},
     incidents : {<<>>, <<"INC-1">>},
     controls : {<<>>, <<"CTL-1">>}]

\* [x for x in ids if x]
Truthy(ids) == SelectSeq(ids, LAMBDA x : x # "")

NoCitations == [raised |-> FALSE, policies |-> <<>>, incidents |-> <<>>, controls |-> <<>>]

CitationError == [NoCitations EXCEPT !.raised = TRUE]

lookup_policy_ids(g, tool_name) ==
    IF g.cond = "unconfigured" THEN NoCitations
    ELSE IF g.cond \in {"unreachable", "raises"} THEN CitationError
    ELSE IF g.cond = "no_schema" THEN NoCitations
    ELSE IF g.cond = "no_record" THEN NoCitations
    ELSE [raised |-> FALSE, policies |-> Truthy(g.policies),
          incidents |-> Truthy(g.incidents), controls |-> Truthy(g.controls)]

\* get_citations_for_decision without its except clause
get_citations_unguarded(g, tool_name) ==
    IF g.cond = "import_failed" THEN NoCitations ELSE lookup_policy_ids(g, tool_name)

get_citations_for_decision(g, tool_name) ==
    IF g.cond = "import_failed" THEN NoCitations
    ELSE IF lookup_policy_ids(g, tool_name).raised THEN NoCitations
    ELSE lookup_policy_ids(g, tool_name)

\* evaluate_tool_call with the citations it attaches
ToolDecisionResult(g, tool_name, args) ==
    [verdict |-> evaluate_tool_call(tool_name, args),
     citations |-> get_citations_for_decision(g, tool_name)]

CiteEvaluate(g, prop) ==
    /\ ~cite.done
    /\ cite' = [done |-> TRUE, graph |-> g, tool |-> prop.tool, args |-> ToolArgs(prop.args),
                out |-> ToolDecisionResult(g, prop.tool, ToolArgs(prop.args))]
    /\ UNCHANGED <<gateway, pol, red, route, mcp, sdk, stdio, rd, reg>>

CiteNext == \E g \in Graphs : \E prop \in Proposals : CiteEvaluate(g, prop)

CiteSpec == Init /\ [][CiteNext]_vars

\* C21: with the policy graph disabled, unconfigured, unreachable, raising or
\* without its schema, the citations of a decision are three empty lists, no
\* error reaches the caller, and verdict, reason and risk are those computed
\* with a seeded graph.
C21_CitationsOptional ==
    cite.done /\ cite.graph.cond \in Degraded
        => /\ cite.out.citations = NoCitations
           /\ cite.out.verdict =
                  ToolDecisionResult([cite.graph EXCEPT !.cond = "ready"], cite.tool, cite.args).verdict

\* an ALLOW decision computed while the graph is unreachable or its query
\* raises, for a graph that would give policy citations
C21_Witness ==
    /\ cite.done
    /\ cite.graph.cond \in {"unreachable", "raises"}
    /\ cite.graph.policies # <<>>
    /\ cite.out.verdict.decision = "ALLOW"
    /\ cite.out.citations.policies = <<>>

(***************************************************************************)
(* Routing of a tool name to a registered MCP server: db/queries.py.       *)
(* mcp_servers.tool_prefix and mcp_servers.name are unique; the query      *)
(* returns the rows in any order.                                          *)
(***************************************************************************)
ServerPrefixes == {<<>>, <<"gh.">>, <<"gh.", "issue">>, <<"fs.">>}

\* the name of the server registered for a prefix
ServerName(prefix) ==
    CASE prefix = <<>> -> "catchall"
      [] prefix = <<"gh.">> -> "github"
      [] prefix = <<"gh.", "issue">> -> "github-issues"
      [] OTHER -> "files"

MCPServer(prefix) == [name |-> ServerName(prefix), tool_prefix |-> prefix]

NoServer == [name |-> Null, tool_prefix |-> <<>>]

\* the results db.query(MCPServer).all() can give: every order of every set
\* of at most MaxServers registered servers
ServerLists ==
    {l \in UNION {[1..k -> {MCPServer(x) : x \in ServerPrefixes}] : k \in 0..MaxServers} :
        \A i, j \in 1..Len(l) : i # j => l[i] # l[j]}

RoutedTools ==
    {<<>>, <<"gh.", "issue", "up">>, <<"gh.", "up">>, <<"fs.", "read_file">>, <<"made.", "up">>}

\* the loop of get_mcp_server_for_tool over the remaining rows
RECURSIVE BestServer(_, _, _)
BestServer(servers, tool_name, best) ==
    IF servers = <<>> THEN best
    ELSE LET server == Head(servers)
             better == IF StartsWith(tool_name, server.tool_prefix)
                       THEN IF best = NoServer THEN TRUE
                            ELSE StrLen(server.tool_prefix) > StrLen(best.tool_prefix)
                       ELSE FALSE
         IN  BestServer(Tail(servers), tool_name, IF better THEN server ELSE best)

\* a lookup that takes the first row whose prefix matches
RECURSIVE get_mcp_server_first_match(_, _)
get_mcp_server_first_match(servers, tool_name) ==
    IF servers = <<>> THEN NoServer
    ELSE IF StartsWith(tool_name, Head(servers).tool_prefix) THEN Head(servers)
    ELSE get_mcp_server_first_match(Tail(servers), tool_name)

get_mcp_server_for_tool(servers, tool_name) ==
    IF tool_name = <<>> THEN NoServer ELSE BestServer(servers, tool_name, NoServer)

RouteLookup(servers, tool_name) ==
    /\ ~route.done
    /\ route' = [done |-> TRUE, servers |-> servers, tool |-> tool_name,
                 out |-> get_mcp_server_for_tool(servers, tool_name)]
    /\ UNCHANGED <<gateway, pol, red, cite, mcp, sdk, stdio, rd, reg>>

RouteNext == \E servers \in ServerLists : \E tool_name \in RoutedTools : RouteLookup(servers, tool_name)

RouteSpec == Init /\ [][RouteNext]_vars

\* the registered servers whose prefix is a prefix of the tool name
Matching(servers, tool_name) ==
    {servers[i] : i \in {j \in 1..Len(servers) : StartsWith(tool_name, servers[j].tool_prefix)}}

\* the lookup gave the one server with the longest matching prefix, or no
\* server when none matches
LongestMatch ==
    IF Matching(route.servers, route.tool) = {} THEN route.out = NoServer
    ELSE /\ route.out \in Matching(route.servers, route.tool)
         /\ \A s \in Matching(route.servers, route.tool) \ {route.out} :
                StrLen(s.tool_prefix) < StrLen(route.out.tool_prefix)

\* C22: the lookup for a non-empty tool name gives the server whose prefix is
\* the longest registered prefix of the name, and no server when no
\* registered prefix matches; the lookup for the empty tool name gives no
\* server.
C22_LongestPrefixRoute ==
    route.done => IF route.tool = <<>> THEN route.out = NoServer ELSE LongestMatch

\* a non-empty tool name matched by three registered prefixes, the longest of
\* them not first in the rows, routed to the server of the longest
C22_Witness ==
    /\ route.done
    /\ route.tool # <<>>
    /\ Cardinality(Matching(route.servers, route.tool)) = 3
    /\ route.servers[1] # route.out
    /\ route.out.name = "github-issues"

\* C22 as stated, for every tool name: the lookup gives the server with the
\* longest matching prefix, or none when no prefix matches
C22_EveryToolName == route.done => LongestMatch

(***************************************************************************)
(* The prefix rule table, for the tool names no built-in rule handles.     *)
(***************************************************************************)
\* the configured rules whose prefix is a prefix of the tool name
MatchingRules(tool, raw) ==
    {raw[i] : i \in {j \in 1..Len(raw) : StartsWith(tool, raw[j].prefix)}}

\* the configured rules with the longest prefix of the tool name
LongestRules(tool, raw) ==
    {r \in MatchingRules(tool, raw) :
        \A other \in MatchingRules(tool, raw) : StrLen(other.prefix) <= StrLen(r.prefix)}

\* the verdict was read off a rule: its verdict in upper case when that is
\* one of the three verdicts and BLOCK otherwise, its reason or "Policy
\* prefix match", its risk or 0.5
ReadOff(out, rule) ==
    /\ out.decision = IF Upper(Get(rule, "decision", "BLOCK")) \in {"ALLOW", "BLOCK", "APPROVAL_REQUIRED"}
                      THEN Upper(Get(rule, "decision", "BLOCK")) ELSE "BLOCK"
    /\ out.reason = IF Get(rule, "reason", <<>>) = <<>> THEN <<"Policy prefix match">>
                    ELSE rule.reason
    /\ out.risk_score = Get(rule, "risk", 5)

\* the verdict is that of the longest matching rule, or Unknown tool
FromLongestRule ==
    IF MatchingRules(pol.tool, rules) = {}
    THEN pol.out = Verdict("BLOCK", <<"Unknown tool">>, 10)
    ELSE \E r \in LongestRules(pol.tool, rules) : ReadOff(pol.out, r.rule)

Tool(name, description) == [name |-> name, description |-> description]

\* the tools a discovery can return, in the order the backend lists them
DiscoverableTools ==
    << Tool(<<"issue">>, <<"github">>),
       Tool(<<"gh.", "issue">>, <<>>),
       Tool(<<"read_file">>, <<"files">>),
       Tool(<<>>, <<"github">>) >>

\* a discovery is a sublist of DiscoverableTools
RECURSIVE Sublist(_, _)
Sublist(l, keep) ==
    IF l = <<>> THEN <<>>
    ELSE Sublist(SubSeq(l, 1, Len(l) - 1), keep) \o (IF Len(l) \in keep THEN <<l[Len(l)]>> ELSE <<>>)

Discoveries == {Sublist(DiscoverableTools, keep) : keep \in SUBSET (1..Len(DiscoverableTools))}

SyncedServers == {<<"github">>, <<"files">>, <<"gateway">>}

ToolBackendNames == {"mcp_http", "mcp_stdio"}

\* _stdio_server_prefix(server_name) without overrides: the slug and a dot
_stdio_server_prefix(server_name) ==
    CASE server_name = <<"github">> -> <<"github.">>
      [] server_name = <<"files">> -> <<"files.">>
      [] OTHER -> <<"gateway.">>

\* the markers _filter_stdio_tools_for_server derives from a server name:
\* token_, token. and token
NameMarkers(server_name) ==
    CASE server_name = <<"github">> -> {"github_", "github.", "github"}
      [] server_name = <<"files">> -> {"files_", "files.", "files"}
      [] OTHER -> {"gateway_", "gateway.", "gateway"}

\* name == m or name.startswith(m) or m.lower() in searchable
MarkerHit(tool, markers) ==
    \/ \E i \in 1..Len(tool.name) : tool.name[i] \in markers
    \/ \E i \in 1..Len(tool.description) : tool.description[i] \in markers

\* _filter_stdio_tools_for_server without MCP_STDIO_SERVER_TOOL_MARKERS
_filter_stdio_tools_for_server(server_name, tools) ==
    IF server_name = <<"gateway">> THEN tools
    ELSE LET filtered == SelectSeq(tools, LAMBDA t : t.name # <<>> /\ MarkerHit(t, NameMarkers(server_name)))
         IN  IF filtered = <<>> THEN tools ELSE filtered

\* _namespace_stdio_tools_for_server
RECURSIVE _namespace_stdio_tools_for_server(_, _)
_namespace_stdio_tools_for_server(prefix, tools) ==
    IF tools = <<>> THEN <<>>
    ELSE LET tool == Head(tools)
             rest == _namespace_stdio_tools_for_server(prefix, Tail(tools))
         IN  IF tool.name = <<>> THEN rest
             ELSE <<[tool EXCEPT !.name = IF StartsWith(tool.name, prefix) THEN tool.name
                                           ELSE prefix \o tool.name]>> \o rest

\* the rows replace_mcp_tools adds: one per tool that has a name
RECURSIVE NamedRows(_)
NamedRows(tools) ==
    IF tools = <<>> THEN <<>>
    ELSE (IF Head(tools).name = <<>> THEN <<>> ELSE <<Head(tools).name>>) \o NamedRows(Tail(tools))

\* a replace_mcp_tools that only adds rows
replace_mcp_tools_adding(rows, server_name, tools) ==
    [rows EXCEPT ![server_name] = rows[server_name] \o NamedRows(tools)]

\* replace_mcp_tools(db, server_id, tools): the rows of mcp_tools afterwards
replace_mcp_tools(rows, server_name, tools) ==
    [rows EXCEPT ![server_name] = NamedRows(tools)]

\* what sync_mcp_tools hands to replace_mcp_tools
SyncedTools(backend, server_name, prefix, found) ==
    IF backend = "mcp_stdio"
    THEN _namespace_stdio_tools_for_server(prefix, _filter_stdio_tools_for_server(server_name, found))
    ELSE found

\* sync_mcp_tools(server_name) with the discovery returning found; an
\* unknown server is registered under the stdio backend and an error
\* otherwise
SyncMcpTools(backend, server_name, found) ==
    /\ mcp.syncs < MaxSyncs
    /\ IF server_name \in DOMAIN mcp.servers
       THEN mcp' = [mcp EXCEPT
                !.tools = replace_mcp_tools(mcp.tools, server_name,
                              SyncedTools(backend, server_name, mcp.servers[server_name], found)),
                !.syncs = @ + 1,
                !.last = [server |-> server_name, backend |-> backend, found |-> found, ok |-> TRUE]]
       ELSE IF backend = "mcp_stdio"
       THEN LET prefix == _stdio_server_prefix(server_name)
            IN  mcp' = [mcp EXCEPT
                    !.servers = (server_name :> prefix) @@ mcp.servers,
                    !.tools = replace_mcp_tools((server_name :> <<>>) @@ mcp.tools, server_name,
                                  SyncedTools(backend, server_name, prefix, found)),
                    !.syncs = @ + 1,
                    !.last = [server |-> server_name, backend |-> backend, found |-> found, ok |-> TRUE]]
       ELSE mcp' = [mcp EXCEPT
                !.syncs = @ + 1,
                !.last = [server |-> server_name, backend |-> backend, found |-> found, ok |-> FALSE]]
    /\ UNCHANGED <<gateway, pol, red, cite, route, sdk, stdio, rd, reg>>

(***************************************************************************)
(* The library engine: sdk/sentinel_sdk/engine.py, with the prefix policy  *)
(* engine of sdk/sentinel_sdk/policy.py and the emitter of audit.py, whose *)
(* sinks accept every write.                                               *)
(***************************************************************************)
\* the prefix rules an engine is constructed with
SdkRuleTables ==
    { << [prefix |-> <<"gh.">>, rule |-> [decision |-> "ALLOW", reason |-> <<"allowed">>, risk |-> 0]] >>,
      << [prefix |-> <<"gh.">>, rule |-> [decision |-> "approval_required"]],
         [prefix |-> <<"gh.", "issue">>, rule |-> [decision |-> "allow", risk |-> 2]] >> }

\* the namespace argument of sync_tools: none, or "gh"
Namespaces == {<<>>, <<"gh.">>}

\* the tool names propose_tool_call is called with
SdkTools == {GhIssue, <<"gh.", "up">>, <<"issue">>, MadeUp}

\* PrefixPolicyEngine.evaluate(tool_name, args)
PrefixPolicyEngine_evaluate(raw, tool_name) ==
    LET hit == FirstMatch(tool_name, SortRules(raw, <<>>))
    IN  IF hit = <<>> THEN Verdict("BLOCK", <<"Unknown tool">>, 10) ELSE hit[1]

\* AuditEmitter.emit: the event is written to every sink, in the order of
\* the sinks
emit(event_type, call_id) ==
    [i \in 1..NumSinks |-> [kind |-> "write", sink |-> i, type |-> event_type, id |-> call_id]]

\* active_tool_backend.call_tool(tool, args)
BackendCalled(tool, call_id) == <<[kind |-> "call", sink |-> 0, type |-> "call_tool", id |-> call_id]>>

\* the Python values a tool returns: a str, None, or a dict of one key whose
\* value is a str or a datetime
PyStr(v) == [py |-> "str", key |-> <<>>, inner |-> "none", v |-> v]

PyNone == [py |-> "None", key |-> <<>>, inner |-> "none", v |-> <<>>]

PyDict(key, inner, v) == [py |-> "dict", key |-> key, inner |-> inner, v |-> v]

\* what active_tool_backend.call_tool does: return a value or raise
SdkOutcomes ==
    { [ok |-> TRUE, val |-> PyStr(<<"OK">>), text |-> <<>>],
      [ok |-> TRUE, val |-> PyNone, text |-> <<>>],
      [ok |-> TRUE, val |-> PyDict(<<"id">>, "str", <<"7">>), text |-> <<>>],
      [ok |-> TRUE, val |-> PyDict(<<"at">>, "datetime", <<"2026">>), text |-> <<>>],
      [ok |-> FALSE, val |-> PyNone, text |-> <<"timed out">>] }

\* json.dumps(value) of a dict: its text, or TypeError for a value the
\* encoder has no rule for
json_dumps(value) ==
    IF value.inner = "str"
    THEN [raised |-> FALSE,
          text |-> <<"{", "\"">> \o value.key \o <<"\"", ": ", "\"">> \o value.v \o <<"\"", "}">>]
    ELSE [raised |-> TRUE,
          text |-> <<"Object of type ", value.inner, " is not JSON serializable">>]

\* _to_result_text(value)
_to_result_text(value) ==
    IF value.py = "None" THEN [raised |-> FALSE, text |-> NullStr]
    ELSE IF value.py \in {"dict", "list"} THEN json_dumps(value)
    ELSE [raised |-> FALSE, text |-> value.v]

\* SentinelEngine(...)
SdkConstruct(allow_unknown_tools, raw) ==
    /\ ~sdk.built
    /\ mcp.syncs = 0
    /\ sdk' = [sdk EXCEPT !.built = TRUE, !.allow_unknown_tools = allow_unknown_tools,
                          !.rules = raw]
    /\ UNCHANGED <<gateway, pol, red, cite, route, mcp, stdio, rd, reg>>

\* the contract names sync_tools computes from a discovery
RECURSIVE SyncedNames(_, _)
SyncedNames(tools, namespace) ==
    IF tools = <<>> THEN <<>>
    ELSE LET raw_name == Head(tools).name
             name == IF namespace = <<>> \/ StartsWith(raw_name, namespace) THEN raw_name
                     ELSE namespace \o raw_name
         IN  (IF raw_name = <<>> THEN <<>> ELSE <<name>>) \o SyncedNames(Tail(tools), namespace)

Range(seq) == {seq[i] : i \in 1..Len(seq)}

\* sync_tools(namespace=namespace) with the discovery returning found
SdkSyncTools(found, namespace) ==
    /\ sdk.built
    /\ sdk.syncs + sdk.calls < MaxSdkOps
    /\ LET synced == SyncedNames(found, namespace)
       IN  sdk' = [sdk EXCEPT
               !.tools = @ \cup Range(synced),
               !.log = @ \o emit("tool.sync", 0),
               !.syncs = @ + 1,
               !.last = [op |-> "sync", found |-> found, namespace |-> namespace, synced |-> synced]]
    /\ UNCHANGED <<gateway, pol, red, cite, route, mcp, stdio, rd, reg>>

\* the try block of propose_tool_call: the backend call, the conversion of
\* its result and the tool.executed event, and the except clause around
\* the three
Execute(tool, call_id, policy, outcome) ==
    LET failed(text) ==
            [log |-> BackendCalled(tool, call_id) \o emit("tool.failed", call_id),
             ret |-> ToolDecision(call_id, "BLOCK", <<"Tool call failed: ">> \o text, NullStr, Null)]
        result_text == _to_result_text(outcome.val)
    IN  IF ~outcome.ok THEN failed(outcome.text)
        ELSE IF result_text.raised THEN failed(result_text.text)
        ELSE [log |-> BackendCalled(tool, call_id) \o emit("tool.executed", call_id),
              ret |-> ToolDecision(call_id, "ALLOW", policy.reason, result_text.text, "EXECUTED")]

\* an engine that does not look at its catalog
IsUnknownNever(engine, tool) == FALSE

\* not self._allow_unknown_tools and tool not in self._tools
IsUnknown(engine, tool) == ~engine.allow_unknown_tools /\ tool \notin engine.tools

\* propose_tool_call(tool, args), the backend answering with outcome when it
\* is called
SdkPropose(tool, outcome) ==
    /\ sdk.built
    /\ sdk.syncs + sdk.calls < MaxSdkOps
    /\ LET call_id == sdk.calls + 1
           policy == PrefixPolicyEngine_evaluate(sdk.rules, tool)
           done == IF IsUnknown(sdk, tool)
                   THEN [log |-> emit("tool.blocked", call_id), evaluated |-> FALSE,
                         ret |-> ToolDecision(call_id, "BLOCK", <<"Unknown tool">>, NullStr, Null)]
                   ELSE IF policy.decision # "ALLOW"
                   THEN [log |-> emit(IF policy.decision = "APPROVAL_REQUIRED"
                                      THEN "tool.pending_approval" ELSE "tool.blocked", call_id),
                         evaluated |-> TRUE,
                         ret |-> ToolDecision(call_id, policy.decision, policy.reason, NullStr,
                                              IF policy.decision = "APPROVAL_REQUIRED"
                                              THEN "PENDING" ELSE Null)]
                   ELSE [log |-> Execute(tool, call_id, policy, outcome).log, evaluated |-> TRUE,
                         ret |-> Execute(tool, call_id, policy, outcome).ret]
       IN  sdk' = [sdk EXCEPT
               !.log = @ \o emit("tool.proposed", call_id) \o done.log,
               !.calls = call_id,
               !.last = [op |-> "propose", tool |-> tool, outcome |-> outcome,
                         evaluated |-> done.evaluated, ret |-> done.ret]]
    /\ UNCHANGED <<gateway, pol, red, cite, route, mcp, stdio, rd, reg>>

\* the two catalogs: the gateway's, or the library engine's
CatalogNext ==
    \/ \E backend \in ToolBackendNames : \E server_name \in SyncedServers : \E found \in Discoveries :
           ~sdk.built /\ SyncMcpTools(backend, server_name, found)
    \/ \E allow_unknown_tools \in BOOLEAN : \E raw \in SdkRuleTables :
           SdkConstruct(allow_unknown_tools, raw)
    \/ \E found \in Discoveries : \E namespace \in Namespaces : SdkSyncTools(found, namespace)

CatalogSpec == Init /\ [][CatalogNext]_vars

\* the library engine alone
SdkNext ==
    \/ \E allow_unknown_tools \in BOOLEAN : \E raw \in SdkRuleTables :
           SdkConstruct(allow_unknown_tools, raw)
    \/ \E found \in Discoveries : \E namespace \in Namespaces : SdkSyncTools(found, namespace)
    \/ \E tool \in SdkTools : \E outcome \in SdkOutcomes : SdkPropose(tool, outcome)

SdkSpec == Init /\ [][SdkNext]_vars

\* a sync_mcp_tools call that found its server has just returned
GatewaySynced == mcp'.syncs = mcp.syncs + 1 /\ mcp'.last.ok

\* sync_mcp_tools leaves exactly the tools of its discovery, filtered and
\* namespaced, in the catalog of its server, and every other catalog as it
\* was
GatewaySyncReplaces ==
    [][GatewaySynced =>
          LET s == mcp'.last.server
          IN  /\ Range(mcp'.tools[s]) =
                     Range(NamedRows(SyncedTools(mcp'.last.backend, s, mcp'.servers[s], mcp'.last.found)))
              /\ \A other \in DOMAIN mcp.tools \ {s} : mcp'.tools[other] = mcp.tools[other]]_vars

\* C24: after a sync the stored catalog is exactly what the discovery of that
\* sync returned (filtered and namespaced): tools of earlier syncs that the
\* new discovery lacks are gone.  Stated for the gateway's catalog of a
\* server and for the catalog of the library engine.
C24_SyncReplaces ==
    [][/\ GatewaySynced =>
              Range(mcp'.tools[mcp'.last.server]) =
                  Range(NamedRows(SyncedTools(mcp'.last.backend, mcp'.last.server,
                                              mcp'.servers[mcp'.last.server], mcp'.last.found)))
       /\ sdk'.syncs = sdk.syncs + 1 => sdk'.tools = Range(sdk'.last.synced)]_vars

(***************************************************************************)
(* The line-oriented JSON-RPC backend: tool_backends/mcp_stdio.py.  Every  *)
(* call_tool and list_tools spawns a child process, runs the initialize    *)
(* handshake on it and terminates it.  A cursor is a number from 1 to      *)
(* MaxPages, 0 standing for no cursor; the server behind the child answers *)
(* a tools/list request with the page of its cursor and any nextCursor.    *)
(***************************************************************************)
Cursors == 1..MaxPages

NoCursor == 0

\* a page as it was answered: the cursor of the request and the nextCursor
\* of the result
Page(cursor, next_cursor) == [cursor |-> cursor, next |-> next_cursor]

\* result["tools"] of the page the server sends for a cursor: two tools,
\* the second one again on the page of the next cursor
Batch(cursor) == <<cursor, cursor + 1>>

\* answers to a request: a result, a JSON-RPC error, no matching line
\* before the timeout, or the start of a line on whose end the reader
\* waits (ReadLoop)
Answers == {"result", "error", "none", "hang"}

\* _read_jsonrpc_response does not return
Hangs(answer) == answer = "hang"

Child(state, init, stdin) == [state |-> state, init |-> init, stdin |-> stdin]

\* a handshake that goes on after an error response
InitAcceptedAny(answer) == answer # "none"

\* _initialize_session goes on after the response: it is there and carries
\* no error
InitAccepted(answer) == answer = "result"

\* the loop over a batch that keeps every tool
AddBatchAll(tools, batch) == tools \o batch

\* for t in batch: tools.append(t) unless the name was seen
RECURSIVE AddBatch(_, _)
AddBatch(tools, batch) ==
    IF batch = <<>> THEN tools
    ELSE AddBatch(IF Head(batch) \in Range(tools) THEN tools ELSE Append(tools, Head(batch)),
                  Tail(batch))

StdioError == [kind |-> "error", tools |-> <<>>]

\* _terminate_process on the child of the running operation
Terminated(children) == [children EXCEPT ![Len(children)].state = "terminated"]

Written(children, message) ==
    [children EXCEPT ![Len(children)].stdin = Append(@, message)]

\* a discovery that sends each page request through _request, on a child
\* of its own
PageRequestOnNewChild(children) ==
    Append(children, Child("running", "result",
                           <<"initialize", "notifications/initialized", "tools/list">>))

\* self._request_with_proc(proc, payload) of list_tools: the request goes
\* to the child list_tools started
PageRequest(children) == Written(children, "tools/list")

\* _start_process for call_tool or list_tools: Popen, then the handshake
StdioStart(op, launched, answer) ==
    /\ stdio.pc = "idle"
    /\ stdio.ops < MaxStdioOps
    /\ IF ~launched
       THEN stdio' = [stdio EXCEPT !.pc = "done", !.ops = @ + 1, !.op = op,
                                   !.out = StdioError]
       ELSE IF Hangs(answer)
       THEN stdio' = [stdio EXCEPT !.pc = "reading", !.ops = @ + 1, !.op = op,
                          !.children = Append(@, Child("running", answer, <<"initialize">>))]
       ELSE IF InitAccepted(answer)
       THEN stdio' = [stdio EXCEPT !.pc = "ready", !.ops = @ + 1, !.op = op,
                          !.children = Append(@, Child("running", answer,
                                           <<"initialize", "notifications/initialized">>))]
       ELSE stdio' = [stdio EXCEPT !.pc = "done", !.ops = @ + 1, !.op = op,
                          !.children = Append(@, Child("running", answer, <<"initialize">>)),
                          !.out = StdioError]
    /\ UNCHANGED <<gateway, pol, red, cite, route, mcp, sdk, rd, reg>>

\* call_tool after _start_process: the request, its answer, and the finally
StdioCallTool(answer) ==
    /\ stdio.pc = "ready"
    /\ stdio.op = "call"
    /\ IF Hangs(answer)
       THEN stdio' = [stdio EXCEPT !.pc = "reading", !.children = Written(@, "tools/call")]
       ELSE stdio' = [stdio EXCEPT
                !.pc = "done",
                !.children = Terminated(Written(@, "tools/call")),
                !.out = IF answer = "result" THEN [kind |-> "result", tools |-> <<>>]
                        ELSE StdioError]
    /\ UNCHANGED <<gateway, pol, red, cite, route, mcp, sdk, rd, reg>>

\* one turn of the loop of list_tools: the request for the page at the
\* cursor, its answer, and the end of the loop with the finally
StdioListPage(answer, next_cursor) ==
    /\ stdio.pc = "ready"
    /\ stdio.op = "list"
    /\ stdio.i < MaxPages
    /\ answer # "result" => next_cursor = NoCursor
    /\ LET tools == AddBatch(stdio.tools, Batch(stdio.cursor))
           pages == Append(stdio.pages, Page(stdio.cursor, next_cursor))
       IN  IF Hangs(answer)
           THEN stdio' = [stdio EXCEPT !.pc = "reading", !.children = PageRequest(@)]
           ELSE IF answer # "result"
           THEN stdio' = [stdio EXCEPT !.pc = "done",
                              !.children = Terminated(PageRequest(@)),
                              !.out = StdioError]
           ELSE IF next_cursor = NoCursor \/ next_cursor = stdio.cursor \/ stdio.i + 1 = MaxPages
           THEN stdio' = [stdio EXCEPT !.pc = "done",
                              !.children = Terminated(PageRequest(@)),
                              !.tools = tools, !.pages = pages,
                              !.out = [kind |-> "result", tools |-> tools]]
           ELSE stdio' = [stdio EXCEPT !.children = PageRequest(@),
                              !.tools = tools, !.pages = pages,
                              !.i = @ + 1, !.cursor = next_cursor]
    /\ UNCHANGED <<gateway, pol, red, cite, route, mcp, sdk, rd, reg>>

\* the operation returns or raises; terminated children are gone
StdioReturn ==
    /\ stdio.pc = "done"
    /\ stdio' = [NoStdio EXCEPT !.ops = stdio.ops,
                                !.children = SelectSeq(stdio.children, LAMBDA c : c.state = "running")]
    /\ UNCHANGED <<gateway, pol, red, cite, route, mcp, sdk, rd, reg>>

StdioNext ==
    \/ \E op \in {"call", "list"} : \E launched \in BOOLEAN : \E answer \in Answers :
           StdioStart(op, launched, answer)
    \/ \E answer \in Answers : StdioCallTool(answer)
    \/ \E answer \in Answers : \E next_cursor \in {NoCursor} \cup Cursors :
           StdioListPage(answer, next_cursor)
    \/ StdioReturn

StdioSpec == Init /\ [][StdioNext]_vars

\* the tools of the pages, in page order
RECURSIVE ToolsOfPages(_)
ToolsOfPages(pages) ==
    IF pages = <<>> THEN <<>> ELSE Batch(Head(pages).cursor) \o ToolsOfPages(Tail(pages))

\* the first occurrence of each element
RECURSIVE FirstOccurrences(_)
FirstOccurrences(seq) ==
    IF seq = <<>> THEN <<>>
    ELSE LET front == FirstOccurrences(SubSeq(seq, 1, Len(seq) - 1))
         IN  IF seq[Len(seq)] \in Range(front) THEN front ELSE Append(front, seq[Len(seq)])

ListReturned == stdio.pc = "done" /\ stdio.op = "list" /\ stdio.out.kind = "result"

\* the first page was asked without a cursor and every later page with the
\* nextCursor of the page before it
FollowsCursors(pages) ==
    /\ pages # <<>>
    /\ pages[1].cursor = NoCursor
    /\ \A k \in 1..(Len(pages) - 1) : pages[k + 1].cursor = pages[k].next

\* the nextCursor of a page is absent or the cursor just sent
LastPage(page) == page.next = NoCursor \/ page.next = page.cursor

\* C25: list_tools returns the tools of the pages it read, in page order,
\* each tool name once; it reads the first page and follows nextCursor from
\* page to page until nextCursor is absent or equal to the cursor just sent,
\* or the page cap is reached.
C25_PagesInOrderDeduplicated ==
    ListReturned =>
        /\ stdio.out.tools = FirstOccurrences(ToolsOfPages(stdio.pages))
        /\ FollowsCursors(stdio.pages)
        /\ \A k \in 1..(Len(stdio.pages) - 1) : ~LastPage(stdio.pages[k])
        /\ LastPage(stdio.pages[Len(stdio.pages)]) \/ Len(stdio.pages) = MaxPages

\* a discovery over three pages with cursors 1 and 2 and then none, whose
\* pages share tools
C25_Witness ==
    /\ ListReturned
    /\ stdio.pages = <<Page(NoCursor, 1), Page(1, 2), Page(2, NoCursor)>>
    /\ stdio.out.tools = <<0, 1, 2, 3>>

\* C25 as stated: list_tools follows nextCursor until it is absent, so the
\* last page it read has no nextCursor
C25_AllPagesUntilAbsent ==
    ListReturned =>
        /\ stdio.out.tools = FirstOccurrences(ToolsOfPages(stdio.pages))
        /\ FollowsCursors(stdio.pages)
        /\ stdio.pages[Len(stdio.pages)].next = NoCursor

\* the positions of a method in what was written to a child
Sent(child, method) == {j \in 1..Len(child.stdin) : child.stdin[j] = method}

\* C30: on every child process a tools/call or tools/list request is written
\* only after initialize was sent, its response had arrived without an error
\* and notifications/initialized was sent; initialize is sent once.
C30_HandshakeFirst ==
    \A k \in 1..Len(stdio.children) :
        LET child == stdio.children[k]
        IN  /\ Cardinality(Sent(child, "initialize")) = 1
            /\ \A j \in Sent(child, "tools/call") \cup Sent(child, "tools/list") :
                   /\ child.init = "result"
                   /\ \E a \in Sent(child, "initialize") :
                          \E b \in Sent(child, "notifications/initialized") : a < b /\ b < j

\* a child that got the handshake and then two tools/list requests
C30_Witness ==
    \E k \in 1..Len(stdio.children) :
        stdio.children[k].stdin =
            <<"initialize", "notifications/initialized", "tools/list", "tools/list">>

(***************************************************************************)
(* Query.pending_approvals over the audit store.                           *)
(***************************************************************************)
\* the ids of the stored tool calls from n down, newest first: created_at
\* grows with the id
RECURSIVE NewestFirst(_)
NewestFirst(n) ==
    IF n = 0 THEN <<>>
    ELSE (IF n \in DOMAIN tool_calls THEN <<n>> ELSE <<>>) \o NewestFirst(n - 1)

\* the rows of the query without its status filter
AllRows == NewestFirst(MaxToolCalls)

\* db.query(DbToolCall).filter(status == "PENDING").order_by(created_at.desc())
PendingRows == SelectSeq(NewestFirst(MaxToolCalls), LAMBDA id : tool_calls[id].status = "PENDING")

\* .limit(n)
Limit(rows, n) == SubSeq(rows, 1, IF Len(rows) < n THEN Len(rows) ELSE n)

\* the loop of pending_approvals over the rows, results being what it has
\* collected
RECURSIVE CollectPending(_, _, _)
CollectPending(rows, results, limit) ==
    IF rows = <<>> THEN results
    ELSE LET decision == get_decision_for_tool_call(decisions, Head(rows))
         IN  IF decision = <<>> THEN CollectPending(Tail(rows), results, limit)
             ELSE IF decision[1].decision # "APPROVAL_REQUIRED"
             THEN CollectPending(Tail(rows), results, limit)
             ELSE IF Len(results) + 1 >= limit THEN Append(results, Head(rows))
             ELSE CollectPending(Tail(rows), Append(results, Head(rows)), limit)

\* pending_approvals(limit): the ids of the tool calls it returns
pending_approvals(limit) == CollectPending(Limit(PendingRows, limit * 3), <<>>, limit)

\* the limits the query is called with
QueryLimits == 0..(MaxToolCalls + 1)

\* the latest decision of a stored tool call is APPROVAL_REQUIRED
LatestIsApprovalRequired(id) ==
    /\ decisions[id] # <<>>
    /\ decisions[id][Len(decisions[id])].decision = "APPROVAL_REQUIRED"

\* the newest tool calls of a set, at most limit, newest first
NewestOf(ids, limit) == Limit(SelectSeq(NewestFirst(MaxToolCalls), LAMBDA id : id \in ids), limit)

InHandler(p) == pc[p] \notin {"idle", "done"}

\* C27: each propose, approve and deny invocation holds exactly one session
\* of the audit store while its handler runs, and holds none once the
\* handler is over, whether it returned a result, returned a policy block,
\* returned after a backend failure, or ended in an unexpected error.
C27_SessionReleased ==
    \A p \in Procs : sess[p] = IF InHandler(p) THEN 1 ELSE 0

\* a handler ended in an unexpected error after it had begun, and another
\* returned a result, the sessions of both released
C27_Witness ==
    \E p \in Procs :
        /\ pc[p] = "done"
        /\ ret[p].kind = "error"
        /\ loc[p].fault
        /\ loc[p].tcid # 0
        /\ sess[p] = 0

(***************************************************************************)
(* propose_tool_call of the library engine.                                *)
(***************************************************************************)
\* the last operation of the engine was a propose_tool_call
Proposed == sdk.calls > 0 /\ sdk.last.op = "propose"

\* what was written and called for one call id, in order
EventsOf(call_id) == SelectSeq(sdk.log, LAMBDA e : e.id = call_id)

BackendInvoked(call_id) ==
    \E i \in 1..Len(sdk.log) : sdk.log[i].kind = "call" /\ sdk.log[i].id = call_id

\* C28: with allow_unknown_tools false, propose_tool_call for a tool name
\* that is not in the synced catalog returns BLOCK with reason "Unknown
\* tool", the policy engine is not asked and the backend is not called,
\* whatever the prefix rules say about the name.
C28_UnknownToolBlocked ==
    (Proposed /\ ~sdk.allow_unknown_tools /\ sdk.last.tool \notin sdk.tools) =>
        /\ sdk.last.ret.decision = "BLOCK"
        /\ sdk.last.ret.reason = <<"Unknown tool">>
        /\ sdk.last.ret.result = NullStr
        /\ sdk.last.ret.final_status = Null
        /\ ~sdk.last.evaluated
        /\ ~BackendInvoked(sdk.last.ret.tool_call_id)

\* a name outside a non-empty catalog that a prefix rule would ALLOW was
\* proposed and blocked
C28_Witness ==
    /\ Proposed
    /\ ~sdk.allow_unknown_tools
    /\ sdk.tools # {}
    /\ sdk.last.tool \notin sdk.tools
    /\ PrefixPolicyEngine_evaluate(sdk.rules, sdk.last.tool).decision = "ALLOW"
    /\ sdk.last.ret.reason = <<"Unknown tool">>

\* the catalog holds the proposed tool, the policy verdict is ALLOW and the
\* backend call returned
AllowedAndRan ==
    /\ Proposed
    /\ sdk.last.tool \in sdk.tools
    /\ PrefixPolicyEngine_evaluate(sdk.rules, sdk.last.tool).decision = "ALLOW"
    /\ sdk.last.outcome.ok

\* every sink was written tool.proposed and later tool.executed for the call
\* id, and tool.executed only after the backend was called
ProposedThenExecuted(call_id) ==
    LET ev == EventsOf(call_id)
        Is(i, kind, type, sink) ==
            ev[i].kind = kind /\ ev[i].type = type /\ ev[i].sink = sink
    IN  /\ \A sink \in 1..NumSinks :
               \E i, j \in 1..Len(ev) :
                   /\ i < j
                   /\ Is(i, "write", "tool.proposed", sink)
                   /\ Is(j, "write", "tool.executed", sink)
        /\ \A j \in 1..Len(ev) :
               ev[j].type = "tool.executed" =>
                   \E k \in 1..(j - 1) : Is(k, "call", "call_tool", 0)

\* C29: for a tool in the synced catalog whose policy verdict is ALLOW and
\* whose backend call succeeds, propose_tool_call returns ALLOW, EXECUTED
\* and the serialized result; every sink gets tool.proposed and then
\* tool.executed with the call id, tool.executed only after the backend
\* call returned.
C29_AllowExecutesAndAudits ==
    AllowedAndRan =>
        /\ sdk.last.ret.decision = "ALLOW"
        /\ sdk.last.ret.final_status = "EXECUTED"
        /\ sdk.last.ret.result = _to_result_text(sdk.last.outcome.val).text
        /\ ProposedThenExecuted(sdk.last.ret.tool_call_id)

\* the same, for the results the conversion to text accepts
ExecutedWhenConvertible ==
    (AllowedAndRan /\ ~_to_result_text(sdk.last.outcome.val).raised) =>
        /\ sdk.last.ret.decision = "ALLOW"
        /\ sdk.last.ret.final_status = "EXECUTED"
        /\ sdk.last.ret.result = _to_result_text(sdk.last.outcome.val).text
        /\ ProposedThenExecuted(sdk.last.ret.tool_call_id)

\* call_tool or list_tools has returned or raised
StdioOver == stdio.pc \in {"idle", "done"}

\* C31: every child process the backend spawned has been terminated by the
\* time call_tool or list_tools returns or raises: after a response, a
\* JSON-RPC error, a request without a response, and a handshake that got
\* no response or an error response.
C31_ChildrenTerminated ==
    StdioOver => \A k \in 1..Len(stdio.children) : stdio.children[k].state = "terminated"

(***************************************************************************)
(* _read_jsonrpc_response of tool_backends/mcp_stdio.py: the loop that     *)
(* waits for the response to one request on the stdout of the child.  What *)
(* the child has written sits in the pipe; select looks at the pipe, and   *)
(* readline hands out lines from the buffer of the text stream, which it   *)
(* refills from the pipe when it holds no complete line.  The clock counts *)
(* the time the reader spends waiting.                                     *)
(***************************************************************************)
\* payload["id"] of the request, and the id of some other message
RequestId == "tools-call"

OtherId == "initialize"

\* the line of a JSON-RPC message with an id
Msg(id) == <<"{", id, "}">>

Line(text) == [text |-> text, nl |-> TRUE]

\* the complete lines a child writes: a blank line, a log line, a message
\* with another id, the response, and the response behind a data: prefix
ChildLines ==
    { Line(<<" ">>), Line(<<"log">>), Line(Msg(OtherId)), Line(Msg(RequestId)),
      Line(<<"data:", " ">> \o Msg(RequestId)) }

\* the start of a response, without its newline
PartialLine == [text |-> <<"{", RequestId>>, nl |-> FALSE]

\* what one write of the child carries
Bursts == UNION {[1..k -> ChildLines] : k \in 1..MaxBurst}

\* str.strip()
RECURSIVE strip(_)
strip(line) ==
    IF line = <<>> THEN line
    ELSE IF Head(line) = " " THEN strip(Tail(line))
    ELSE IF line[Len(line)] = " " THEN strip(SubSeq(line, 1, Len(line) - 1))
    ELSE line

NoData == [ok |-> FALSE, id |-> ""]

\* json.loads(line): the object with its id, or an exception
json_loads(line) ==
    IF Len(line) = 3 /\ line[1] = "{" /\ line[3] = "}"
    THEN [ok |-> TRUE, id |-> line[2]]
    ELSE NoData

\* lines 49-57: strip, skip a blank line, drop a data: prefix, parse
ParseLine(raw) ==
    LET line == strip(raw)
    IN  IF line = <<>> THEN NoData
        ELSE IF StartsWith(line, <<"data:">>) THEN json_loads(strip(SubSeq(line, 2, Len(line))))
        ELSE json_loads(line)

\* isinstance(data, dict) and data.get("id") == request_id
Accepts(data, request_id) == data.ok /\ data.id = request_id

\* select.select([proc.stdout], [], [], 0.2) finds the pipe readable: it
\* holds data, or its writing end is closed
Ready == rd.pipe # <<>> \/ ~rd.alive

HasLine(buf) == buf # <<>> /\ Head(buf).nl

\* the line readline returned is looked at: returned when it is the
\* response, skipped otherwise
Take(text, buf, pipe) ==
    LET data == ParseLine(text)
    IN  IF Accepts(data, RequestId)
        THEN rd' = [rd EXCEPT !.pc = "returned", !.out = data, !.buf = buf, !.pipe = pipe]
        ELSE rd' = [rd EXCEPT !.pc = "loop", !.buf = buf, !.pipe = pipe]

\* the request was written; deadline = time.monotonic() + timeout
ReadBegin ==
    /\ rd.pc = "idle"
    /\ rd' = [rd EXCEPT !.pc = "loop"]
    /\ UNCHANGED <<gateway, pol, red, cite, route, mcp, sdk, stdio, reg>>

\* one turn of the while loop that does not end in a select without
\* readable data: the test of the deadline, select, readline, the line
ReadLoop ==
    /\ rd.pc = "loop"
    /\ rd.now >= ReadTimeout \/ Ready
    /\ IF rd.now >= ReadTimeout
       THEN rd' = [rd EXCEPT !.pc = "returned", !.out = NoData]
       ELSE LET refill == ~HasLine(rd.buf)
                buf == IF refill THEN rd.buf \o rd.pipe ELSE rd.buf
                pipe == IF refill THEN <<>> ELSE rd.pipe
            IN  IF HasLine(buf) THEN Take(Head(buf).text, Tail(buf), pipe)
                ELSE IF buf = <<>>
                THEN \* readline returned "" and proc.poll() is not None
                     rd' = [rd EXCEPT !.pc = "returned", !.out = NoData]
                ELSE IF ~rd.alive THEN Take(Head(buf).text, Tail(buf), pipe)
                ELSE \* readline waits for the rest of the line
                     rd' = [rd EXCEPT !.pc = "readline", !.buf = buf, !.pipe = pipe]
    /\ UNCHANGED <<gateway, pol, red, cite, route, mcp, sdk, stdio, reg>>

\* readline gets the end of the file after a line without a newline
ReadLineResume ==
    /\ rd.pc = "readline"
    /\ ~rd.alive
    /\ Take(Head(rd.buf).text, Tail(rd.buf), rd.pipe)
    /\ UNCHANGED <<gateway, pol, red, cite, route, mcp, sdk, stdio, reg>>

\* the reader has a step to take without waiting
ReaderRuns ==
    \/ rd.pc = "idle"
    \/ rd.pc = "loop" /\ (rd.now >= ReadTimeout \/ Ready)
    \/ rd.pc = "readline" /\ ~rd.alive

\* time passes while the reader waits, in select or in readline
Tick ==
    /\ rd.pc \in {"loop", "readline"}
    /\ ~ReaderRuns
    /\ rd.now < ReadTimeout
    /\ rd' = [rd EXCEPT !.now = @ + 1]
    /\ UNCHANGED <<gateway, pol, red, cite, route, mcp, sdk, stdio, reg>>

\* the child writes complete lines in one write
ChildWrite(burst) ==
    /\ rd.pc # "returned"
    /\ rd.alive
    /\ ~rd.partial
    /\ rd.pipe = <<>>
    /\ rd' = [rd EXCEPT
           !.pipe = burst,
           !.answered = @ \/ (rd.now < ReadTimeout /\
                              \E k \in 1..Len(burst) : Accepts(ParseLine(burst[k].text), RequestId))]
    /\ UNCHANGED <<gateway, pol, red, cite, route, mcp, sdk, stdio, reg>>

\* the child writes the start of a line and nothing after it
ChildWritePartial ==
    /\ rd.pc # "returned"
    /\ rd.alive
    /\ ~rd.partial
    /\ rd.pipe = <<>>
    /\ rd' = [rd EXCEPT !.pipe = <<PartialLine>>, !.partial = TRUE]
    /\ UNCHANGED <<gateway, pol, red, cite, route, mcp, sdk, stdio, reg>>

\* the child exits; its end of the pipe is closed
ChildExit ==
    /\ rd.pc # "returned"
    /\ rd.alive
    /\ rd' = [rd EXCEPT !.alive = FALSE]
    /\ UNCHANGED <<gateway, pol, red, cite, route, mcp, sdk, stdio, reg>>

ReadNext ==
    \/ ReadBegin
    \/ ReadLoop
    \/ ReadLineResume
    \/ Tick
    \/ \E burst \in Bursts : ChildWrite(burst)
    \/ ChildWritePartial
    \/ ChildExit

ReadSpec == Init /\ [][ReadNext]_vars

\* the reading thread is scheduled
ReadFairSpec == ReadSpec /\ WF_vars(ReadBegin \/ ReadLoop \/ ReadLineResume)

\* the reader never returns a message with another id
ReturnsOnlyTheResponse == rd.out.ok => rd.out.id = RequestId

\* C32: if the child writes a complete line with the id of the request
\* before the timeout, _read_jsonrpc_response returns that message,
\* whatever blank, non-JSON, data:-prefixed or other-id lines precede it,
\* also when several lines arrive in one write; it never returns a message
\* with another id.
C32_ResponseMatched ==
    rd.pc = "returned" =>
        /\ rd.answered => Accepts(rd.out, RequestId)
        /\ rd.out.ok => rd.out.id = RequestId

\* C33: once the timeout has elapsed or the child has exited,
\* _read_jsonrpc_response returns, whatever the child does: nothing, lines
\* that do not match, or a line without its newline.
C33_ReadingBounded ==
    (rd.pc \in {"loop", "readline"} /\ (rd.now >= ReadTimeout \/ ~rd.alive)) ~> (rd.pc = "returned")

\* the thread that runs call_tool or list_tools is scheduled
StdioFairSpec ==
    StdioSpec /\ WF_vars((\E answer \in Answers : StdioCallTool(answer))
                         \/ (\E answer \in Answers : \E next_cursor \in {NoCursor} \cup Cursors :
                                 StdioListPage(answer, next_cursor))
                         \/ StdioReturn)

\* no child is sent more tools/list requests than the page cap
PageCapKept ==
    \A k \in 1..Len(stdio.children) :
        Cardinality(Sent(stdio.children[k], "tools/list")) <= MaxPages

\* a discovery whose requests are all answered or time out comes to its end
EndsWhenAnswered == (stdio.op = "list" /\ stdio.pc = "ready") ~> (stdio.pc \in {"done", "reading"})

\* C34: list_tools sends at most the page cap of tools/list requests and
\* terminates for every behaviour of the server.
C34_DiscoveryTerminates ==
    /\ []PageCapKept
    /\ (stdio.op = "list") ~> (stdio.pc = "done")

\* the children whose handshake was completed, and those that were sent a
\* tools/list request
Initialized == {k \in 1..Len(stdio.children) : stdio.children[k].init = "result"}

Listed == {k \in 1..Len(stdio.children) : Sent(stdio.children[k], "tools/list") # {}}

\* C35: a list_tools call spawns one child process and sends every
\* tools/list request of its pages over the session initialized on it.
C35_SingleSession ==
    (stdio.op = "list" /\ stdio.pages # <<>>) =>
        /\ Cardinality(Initialized) = 1
        /\ Listed = Initialized
        /\ \A k \in Listed :
               Cardinality(Sent(stdio.children[k], "tools/list")) >= Len(stdio.pages)

\* a discovery of three pages on one child, next to a child left by an
\* earlier call
C35_Witness ==
    /\ ListReturned
    /\ Len(stdio.pages) = 3
    /\ Len(stdio.children) = 2
    /\ Cardinality(Sent(stdio.children[2], "tools/list")) = 3

(***************************************************************************)
(* The arguments approve_tool_call hands to the backend.                   *)
(***************************************************************************)
\* the backend calls approve_tool_call made for a tool call
ApproveCalls(id) == SelectSeq(backendLog[id], LAMBDA e : e.op = "approve")

\* the proposals a stored tool call can come from: its tool, its argument
\* names
ProposalsOf(tc) ==
    {prop \in Proposals :
        prop.tool = tc.tool_name /\ DOMAIN ToolArgs(prop.args) = DOMAIN tc.args_redacted}

\* C36: approve_tool_call calls the backend with the tool name and the
\* redacted args stored on the tool call; an argument value that redaction
\* masked at proposal time reaches the backend masked, never as proposed.
C36_ApproveUsesStoredArgs ==
    \A id \in DOMAIN tool_calls :
        \A i \in 1..Len(ApproveCalls(id)) :
            LET call == ApproveCalls(id)[i]
            IN  /\ call.tool = tool_calls[id].tool_name
                /\ call.args = tool_calls[id].args_redacted
                /\ \A prop \in ProposalsOf(tool_calls[id]) :
                       LET raw == ToolArgs(prop.args)
                       IN  \A k \in DOMAIN raw :
                               redact_args(raw)[k] # raw[k] =>
                                   call.args[k] = redact_args(raw)[k]

\* an approve called the backend for a proposal with an API key, and the
\* backend got the mask
C36_Witness ==
    \E id \in DOMAIN tool_calls :
        /\ ApproveCalls(id) # <<>>
        /\ KApiKey \in DOMAIN ApproveCalls(id)[1].args
        /\ ApproveCalls(id)[1].args[KApiKey] = <<"***REDACTED***">>
        /\ \E prop \in ProposalsOf(tool_calls[id]) : prop.args[KApiKey] = <<"s3cr3t">>

(***************************************************************************)
(* The range of the risk scores, in tenths.                                *)
(***************************************************************************)
\* C37: every risk score the policy engine returns lies in [0,1]; a risk a
\* prefix rule configures below 0 or above 1 is clamped to the nearest
\* bound.
C37_RiskInUnitInterval ==
    pol.out # NoVerdict => pol.out.risk_score \in 0..10

(***************************************************************************)
(* The committed rows of a proposal.                                       *)
(***************************************************************************)
\* C38: in every committed state of the audit store there is no run of a
\* proposal without its tool call and no tool call without a decision,
\* with overlapping requests and also when a proposal ends part-way in an
\* unexpected error.
C38_ProposalAtomic ==
    /\ DOMAIN runs = DOMAIN tool_calls
    /\ \A id \in DOMAIN tool_calls : decisions[id] # <<>>
    /\ \A id \in 1..MaxToolCalls : id \notin DOMAIN tool_calls => decisions[id] = <<>>

\* a proposal is in the store with its run, its tool call and a decision,
\* and a later proposal has ended in a store error
C38_Witness ==
    /\ DOMAIN runs # {}
    /\ \E p \in Procs :
           /\ pc[p] = "done"
           /\ loc[p].op = "propose"
           /\ loc[p].fault
           /\ ret[p].kind = "error"

(***************************************************************************)
(* Mutation.register_mcp_server over the table mcp_servers, whose columns  *)
(* name and tool_prefix are unique.                                        *)
(***************************************************************************)
RegNames == {"github", "files"}

RegPrefixes == {<<"gh.">>, <<"gh.", "issue">>, <<"fs.">>}

RegUrls == {"http://a", "http://b"}

\* Column(String, nullable=False, unique=True) on name and on tool_prefix
UniqueColumns(rows) ==
    \A i, j \in 1..Len(rows) :
        i # j => rows[i].name # rows[j].name /\ rows[i].tool_prefix # rows[j].tool_prefix

\* the rows of filter((MCPServer.name == name) | (MCPServer.tool_prefix == tool_prefix))
Existing(rows, name, tool_prefix) ==
    {i \in 1..Len(rows) : rows[i].name = name \/ rows[i].tool_prefix = tool_prefix}

\* register_mcp_server(name, base_url, tool_prefix): .first() gives any of
\* the matching rows; a commit that breaks a unique column raises and
\* leaves the table as it was
RegisterMcpServer(name, base_url, tool_prefix) ==
    /\ LET rows == reg.rows
           existing == Existing(rows, name, tool_prefix)
           call == [name |-> name, base_url |-> base_url, tool_prefix |-> tool_prefix,
                    matched |-> existing # {}, ok |-> TRUE, before |-> Len(rows)]
       IN  IF existing = {}
           THEN reg' = [reg EXCEPT
                    !.rows = Append(rows, [id |-> reg.created + 1, name |-> name,
                                           base_url |-> base_url, tool_prefix |-> tool_prefix]),
                    !.created = @ + 1,
                    !.last = call]
           ELSE \E i \in existing :
                    LET updated == [rows EXCEPT ![i] = [@ EXCEPT !.name = name,
                                                                 !.base_url = base_url,
                                                                 !.tool_prefix = tool_prefix]]
                    IN  IF UniqueColumns(updated)
                        THEN reg' = [reg EXCEPT !.rows = updated, !.last = call]
                        ELSE reg' = [reg EXCEPT !.last = [call EXCEPT !.ok = FALSE]]
    /\ UNCHANGED <<gateway, pol, red, cite, route, mcp, sdk, stdio, rd>>

RegNext ==
    \E name \in RegNames : \E base_url \in RegUrls : \E tool_prefix \in RegPrefixes :
        RegisterMcpServer(name, base_url, tool_prefix)

RegSpec == Init /\ [][RegNext]_vars

\* no two registrations share a name and no two share a tool prefix
UniqueRegistrations == UniqueColumns(reg.rows)

\* a call that matched one registration only updated it
UpsertOfOne ==
    LET last == reg.last
    IN  (last.matched /\ last.ok) =>
            /\ Len(reg.rows) = last.before
            /\ \E i \in 1..Len(reg.rows) :
                   /\ reg.rows[i].name = last.name
                   /\ reg.rows[i].tool_prefix = last.tool_prefix
                   /\ reg.rows[i].base_url = last.base_url

\* C39: after any sequence of register_mcp_server calls no two
\* registrations share a name and no two share a tool prefix, and a call
\* whose name or tool prefix equals that of an existing registration
\* updates that registration instead of adding a second one.
C39_UpsertByNameOrPrefix ==
    /\ UniqueColumns(reg.rows)
    /\ reg.last.matched =>
           /\ reg.last.ok
           /\ Len(reg.rows) = reg.last.before
           /\ \E i \in 1..Len(reg.rows) :
                  /\ reg.rows[i].name = reg.last.name
                  /\ reg.rows[i].tool_prefix = reg.last.tool_prefix
                  /\ reg.rows[i].base_url = reg.last.base_url

(***************************************************************************)
(* propose_tool_call of the library engine with audit sinks whose writes   *)
(* can fail: AuditEmitter.emit of sdk/sentinel_sdk/audit.py.               *)
(***************************************************************************)
Sinks == 1..NumSinks

\* the sinks whose write raises, for each of the events of one call: the
\* tool.proposed event, the event of the verdict (tool.blocked,
\* tool.pending_approval or tool.executed) and the tool.failed event
SinkFaults == [proposed : SUBSET Sinks, verdict : SUBSET Sinks, failed : SUBSET Sinks]

NoFaults == [proposed |-> {}, verdict |-> {}, failed |-> {}]

\* AuditEmitter.emit(event_type, payload) when the writes to the sinks of
\* bad raise: every sink is tried, and the emitter raises after the loop
\* when a write failed and fail_closed is set
AuditEmitter_emit(event_type, call_id, bad, fail_closed) ==
    [log |-> SelectSeq(emit(event_type, call_id), LAMBDA w : w.sink \notin bad),
     errors |-> bad, raised |-> bad # {} /\ fail_closed]

\* SentinelEngine(..., audit_fail_closed=audit_fail_closed)
SentinelEngine(allow_unknown_tools, raw, audit_fail_closed) ==
    /\ ~sdk.built
    /\ mcp.syncs = 0
    /\ sdk' = [sdk EXCEPT !.built = TRUE, !.allow_unknown_tools = allow_unknown_tools,
                          !.rules = raw, !.fail_closed = audit_fail_closed]
    /\ UNCHANGED <<gateway, pol, red, cite, route, mcp, stdio, rd, reg>>

\* the except clause of propose_tool_call: tool.failed is emitted and BLOCK
\* returned, unless that emit raises
ExceptClause(call_id, text, bad, fail_closed) ==
    LET e == AuditEmitter_emit("tool.failed", call_id, bad.failed, fail_closed)
    IN  [log |-> e.log, errors |-> e.errors, raised |-> e.raised,
         ret |-> IF e.raised THEN Raised
                 ELSE ToolDecision(call_id, "BLOCK", <<"Tool call failed: ">> \o text, NullStr, Null)]

\* the try block of propose_tool_call with its except clause
TryExecute(tool, call_id, policy, outcome, bad, fail_closed) ==
    LET result_text == _to_result_text(outcome.val)
        executed == AuditEmitter_emit("tool.executed", call_id, bad.verdict, fail_closed)
        handled(text, tried) ==
            LET h == ExceptClause(call_id, text, bad, fail_closed)
            IN  [log |-> BackendCalled(tool, call_id) \o tried.log \o h.log,
                 errors |-> tried.errors \cup h.errors, raised |-> h.raised, ret |-> h.ret]
        untried == [log |-> <<>>, errors |-> {}]
    IN  IF ~outcome.ok THEN handled(outcome.text, untried)
        ELSE IF result_text.raised THEN handled(result_text.text, untried)
        ELSE IF executed.raised
        THEN handled(<<"Audit emission failed">>, executed)
        ELSE [log |-> BackendCalled(tool, call_id) \o executed.log,
              errors |-> executed.errors, raised |-> FALSE,
              ret |-> ToolDecision(call_id, "ALLOW", policy.reason, result_text.text, "EXECUTED")]

\* propose_tool_call(tool, args) from its first line to its return or raise
ProposeToolCall(engine, call_id, tool, outcome, bad) ==
    LET fc == engine.fail_closed
        policy == PrefixPolicyEngine_evaluate(engine.rules, tool)
        proposed == AuditEmitter_emit("tool.proposed", call_id, bad.proposed, fc)
        verdictEvent == IF IsUnknown(engine, tool) THEN "tool.blocked"
                        ELSE IF policy.decision = "APPROVAL_REQUIRED" THEN "tool.pending_approval"
                        ELSE "tool.blocked"
        verdict == AuditEmitter_emit(verdictEvent, call_id, bad.verdict, fc)
        refused == IF IsUnknown(engine, tool)
                   THEN ToolDecision(call_id, "BLOCK", <<"Unknown tool">>, NullStr, Null)
                   ELSE ToolDecision(call_id, policy.decision, policy.reason, NullStr,
                                     IF policy.decision = "APPROVAL_REQUIRED"
                                     THEN "PENDING" ELSE Null)
        try == TryExecute(tool, call_id, policy, outcome, bad, fc)
    IN  IF proposed.raised
        THEN [log |-> proposed.log, errors |-> proposed.errors, raised |-> TRUE, ret |-> Raised]
        ELSE IF IsUnknown(engine, tool) \/ policy.decision # "ALLOW"
        THEN [log |-> proposed.log \o verdict.log,
              errors |-> proposed.errors \cup verdict.errors, raised |-> verdict.raised,
              ret |-> IF verdict.raised THEN Raised ELSE refused]
        ELSE [log |-> proposed.log \o try.log, errors |-> proposed.errors \cup try.errors,
              raised |-> try.raised, ret |-> try.ret]

\* one propose_tool_call of an engine whose sinks fail as bad says
SdkProposeAudited(tool, outcome, bad) ==
    /\ sdk.built
    /\ sdk.syncs + sdk.calls < MaxSdkOps
    /\ sdk.calls < MaxAuditCalls
    /\ LET call_id == sdk.calls + 1
           done == ProposeToolCall(sdk, call_id, tool, outcome, bad)
       IN  sdk' = [sdk EXCEPT
               !.log = @ \o done.log,
               !.calls = call_id,
               !.last = [op |-> "propose", tool |-> tool, outcome |-> outcome, bad |-> bad,
                         id |-> call_id, errors |-> done.errors,
                         raised |-> done.raised, ret |-> done.ret,
                         clean |-> ProposeToolCall(sdk, call_id, tool, outcome, NoFaults).ret]]
    /\ UNCHANGED <<gateway, pol, red, cite, route, mcp, stdio, rd, reg>>

AuditNext ==
    \/ \E allow_unknown_tools \in BOOLEAN : \E raw \in SdkRuleTables : \E fc \in BOOLEAN :
           SentinelEngine(allow_unknown_tools, raw, fc)
    \/ SdkSyncTools(DiscoverableTools, <<>>)
    \/ \E tool \in SdkTools : \E outcome \in SdkOutcomes : \E bad \in SinkFaults :
           SdkProposeAudited(tool, outcome, bad)

AuditSpec == Init /\ [][AuditNext]_vars

\* with fail_closed, a failed write of tool.proposed makes the call raise
\* before the backend is called
ProposedFailurePreventsCall ==
    (Proposed /\ sdk.fail_closed /\ sdk.last.bad.proposed # {}) =>
        /\ sdk.last.raised
        /\ ~BackendInvoked(sdk.last.id)

\* without fail_closed the call never raises and returns what it returns
\* with sinks that accept every write
OpenSinksChangeNothing ==
    (Proposed /\ ~sdk.fail_closed) =>
        /\ ~sdk.last.raised
        /\ sdk.last.ret = sdk.last.clean

\* the backend call of the last propose_tool_call returned and its result
\* was converted, and a write of tool.executed failed
ExecutedWriteFailed ==
    /\ Proposed
    /\ BackendInvoked(sdk.last.id)
    /\ sdk.last.outcome.ok
    /\ ~_to_result_text(sdk.last.outcome.val).raised
    /\ sdk.last.bad.verdict # {}

\* with fail_closed, a failed write makes the call raise, the write of
\* tool.executed apart
RaisesUnlessExecutedWrite ==
    (Proposed /\ sdk.fail_closed /\ sdk.last.errors # {} /\ ~ExecutedWriteFailed) =>
        /\ sdk.last.raised
        /\ sdk.last.ret = Raised

\* C40: with audit_fail_closed = True a failing sink write during
\* propose_tool_call makes the call raise and return no ToolDecision: a
\* failure while emitting tool.proposed prevents the backend call, and a
\* failure while emitting tool.executed after the backend call succeeded is
\* never turned into a returned BLOCK for a tool that did run; with
\* audit_fail_closed = False sink failures never change the returned
\* decision.
C40_AuditFailClosed ==
    /\ (Proposed /\ sdk.fail_closed /\ sdk.last.errors # {}) => sdk.last.raised
    /\ (Proposed /\ sdk.fail_closed /\ sdk.last.bad.proposed # {}) => ~BackendInvoked(sdk.last.id)
    /\ (sdk.fail_closed /\ ExecutedWriteFailed) => sdk.last.ret.kind # "decision"
    /\ (Proposed /\ ~sdk.fail_closed) => sdk.last.ret = sdk.last.clean

====
